----------------------------- MODULE QueryState -----------------------------
(***************************************************************************)
(* The part of the web panel's state that lives in the address: the query  *)
(* string is a function from the names that are present to their texts.    *)
(* The pages read it with a fallback and change it with patches; lists cut *)
(* into pages read their page number from it.                              *)
(***************************************************************************)
EXTENDS Integers, Sequences, FiniteSets, TLC

None == "null"      \* null and undefined: the name leaves the query string
Blank == ""

Read(s, key, fallback) == IF key \in DOMAIN s THEN s[key] ELSE fallback

\* A patch removes what is null, blank or the default, and sets the rest.
Patched(s, patch, defaults) ==
    LET kept == {k \in DOMAIN patch :
                    /\ patch[k] \notin {None, Blank}
                    /\ k \in DOMAIN defaults => patch[k] # defaults[k]}
    IN [k \in (DOMAIN s \ DOMAIN patch) \cup kept |->
            IF k \in kept THEN patch[k] ELSE s[k]]

NoDefaults == [k \in {} |-> Blank]

Only(key, value) == [k \in {key} |-> value]

\* The setter of one name: its fallback is its default.
SetState(s, key, fallback, value) == Patched(s, Only(key, value), Only(key, fallback))

\* A legacy address goes on to its mode and keeps what it received.
Redirected(s, params) ==
    [k \in DOMAIN s \cup DOMAIN params |-> IF k \in DOMAIN s THEN s[k] ELSE params[k]]

\* A link of a page: the page it leads to, and the query string it has there.
To(page, s) == [to |-> page, search |-> s]

-----------------------------------------------------------------------------
\* Numbers come back from the address as text; what is not a page is page 1.
CONSTANT MaxPage    \* bound: the highest page number an address holds

PageText(n) == ToString(n)

pageIndex(raw) == IF \E n \in 1 .. MaxPage : PageText(n) = raw
                  THEN CHOOSE n \in 1 .. MaxPage : PageText(n) = raw
                  ELSE 1

Lesser(a, b) == IF a <= b THEN a ELSE b
Greater(a, b) == IF a >= b THEN a ELSE b

Pages(total, size) == Greater(1, (total + size - 1) \div size)

\* Faulty: a page beyond the last is not taken back to it.
pageUncut(rows, page, size) ==
    LET first == (page - 1) * size
        slice == SubSeq(rows, first + 1, Lesser(first + size, Len(rows)))
    IN [page |-> page, rows |-> slice, total |-> Len(rows),
        start |-> first + 1, end |-> first + Len(slice)]

\* The rows of one page of a list the browser holds whole.
pageSlice(rows, page, size) ==
    LET total == Len(rows)
        safe  == Lesser(Greater(page, 1), Pages(total, size))
        first == (safe - 1) * size
        slice == SubSeq(rows, first + 1, Lesser(first + size, total))
    IN [page |-> safe, rows |-> slice, total |-> total,
        start |-> IF total = 0 THEN 0 ELSE first + 1,
        end |-> Lesser(total, first + Len(slice))]

\* The pages the two buttons of a pager lead to, from the page of the address
\* and the total of the last answer.
PagerTargets(total, size, page) ==
    LET pages == Pages(total, size)
        safe  == Lesser(page, pages)
    IN {n \in {safe - 1} : safe > 1} \cup {n \in {safe + 1} : safe < pages /\ total # 0}

=============================================================================
