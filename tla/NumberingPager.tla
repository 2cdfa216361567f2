--------------------------- MODULE NumberingPager ---------------------------
(***************************************************************************)
(* The Runexis Numbering client reads the list of free numbers: pages are  *)
(* asked for in parallel waves, a short page ends the list, and since the  *)
(* gateway sometimes truncates a page, the end is verified: a tiny short   *)
(* page is read again on its own, and behind a large one the next page is  *)
(* peeked at.  What is returned replaces the free slice of the catalog.    *)
(*                                                                         *)
(* The list is 1..size; a page is its first item and how many items came.  *)
(***************************************************************************)
EXTENDS Naturals, Functions, FiniteSetsExt

CONSTANTS
  PageLimit,    \* NUMBERING_PAGE_LIMIT
  Requested,    \* NUMBERING_FETCH_CONCURRENCY
  MaxOffset,    \* no page is asked for beyond it
  Sizes,        \* lengths that the list may have
  MaxShort,     \* bound on truncated pages
  MaxRefused    \* bound on calls that the gateway refuses or breaks

ASSUME PagerAssumption ==
  /\ PageLimit \in Nat \ {0} /\ Requested \in Nat \ {0} /\ Sizes \subseteq Nat
  /\ MaxOffset \in Nat /\ MaxShort \in Nat /\ MaxRefused \in Nat

VARIABLES
  size,      \* the length of the list
  filter,    \* access_state or, if that is refused, usage_statuses
  pc,
  pages,     \* offset -> items that came, of the waves that have ended
  next,      \* next_offset
  conc,      \* concurrency
  resumed,   \* sequential_resume_used: an end has been verified
  asked,     \* offsets of the wave that are on their way
  landed,    \* pages that have come and are not looked at
  got,       \* pages of the wave
  result,    \* the items returned
  short, refused,
  cut        \* (history) offsets of pages that were truncated

wave == <<asked, landed, got>>
place == <<pages, next, conc, resumed>>
pagerVars == <<size, filter, pc, place, wave, result, short, refused, cut>>

\* mutant: an end counts as verified from the start
SequentialFromStart == Requested >= 1

AlreadySequential == Requested <= 1
SoftMin == Max({1, PageLimit \div 2})
Truth(off) == IF off >= size THEN 0 ELSE Min({PageLimit, size - off})
Short(n) == n < PageLimit
Items(p) == UNION {(off + 1)..(off + p[off]) : off \in DOMAIN p}
With(p, off, n) == [o \in DOMAIN p \cup {off} |-> IF o = off THEN n ELSE p[o]]
Joined(p, q) == [o \in DOMAIN p \cup DOMAIN q |-> IF o \in DOMAIN p THEN p[o] ELSE q[o]]
Below(p, off) == Restrict(p, {o \in DOMAIN p : o < off})

PagerInit ==
  /\ size \in Sizes /\ filter = "access_state" /\ pc = "count"
  /\ pages = <<>> /\ next = 0 /\ conc = Requested /\ resumed = AlreadySequential
  /\ asked = {} /\ landed = <<>> /\ got = <<>>
  /\ result = {} /\ short = 0 /\ refused = 0 /\ cut = {}

-----------------------------------------------------------------------------
(* Calls.                                                                  *)

\* _fetch_page: the page, or a part of it.
Arrives(off, n) ==
  \/ n = Truth(off) /\ UNCHANGED <<short, cut>>
  \/ /\ n < Truth(off) /\ short < MaxShort
     /\ short' = short + 1 /\ cut' = cut \cup {off}
Answers == 0..PageLimit

Refusal == refused < MaxRefused /\ refused' = refused + 1
Fails == pc' = "failed" /\ UNCHANGED <<filter, place, wave, result>>

\* A timeout, a broken connection, an HTTP error or an unknown shape.
Breaks ==
  pc \in {"count", "first", "peek"} /\ Refusal /\ Fails /\ UNCHANGED <<size, short, cut>>

\* Refused again after a new session: the other filter, from the beginning.
Refused ==
  /\ pc \in {"count", "first", "peek"} /\ Refusal
  /\ IF filter = "access_state"
     THEN /\ filter' = "usage_statuses" /\ pc' = "count"
          /\ pages' = <<>> /\ next' = 0 /\ conc' = Requested /\ resumed' = AlreadySequential
          /\ UNCHANGED <<wave, result>>
     ELSE Fails
  /\ UNCHANGED <<size, short, cut>>

Count ==
  /\ pc = "count" /\ pc' = "first"
  /\ UNCHANGED <<size, filter, place, wave, result, short, refused, cut>>

\* The pages in order, up to the first that is short; an empty list fails.
Kept(p) == {off \in DOMAIN p : \A o \in DOMAIN p : o < off => ~Short(p[o])}
Return(p) ==
  LET items == Items(Restrict(p, Kept(p)))
  IN /\ pages' = p /\ result' = items
     /\ pc' = IF items = {} THEN "failed" ELSE "done"

\* A short first page is the whole list.
First ==
  /\ pc = "first"
  /\ \E n \in Answers :
       /\ Arrives(0, n)
       /\ IF Short(n) THEN Return([o \in {0} |-> n]) /\ UNCHANGED next
          ELSE pages' = [o \in {0} |-> n] /\ next' = PageLimit /\ pc' = "wave" /\ UNCHANGED result
  /\ UNCHANGED <<size, filter, conc, resumed, wave, refused>>

-----------------------------------------------------------------------------
(* Waves.                                                                  *)

Launch ==
  /\ pc = "wave"
  /\ IF next > MaxOffset THEN Return(pages) /\ UNCHANGED asked
     ELSE /\ asked' = {next + i * PageLimit : i \in 0..(conc - 1)}
          /\ pc' = "pages" /\ UNCHANGED <<pages, result>>
  /\ UNCHANGED <<size, filter, next, conc, resumed, landed, got, short, refused, cut>>

Land(off) ==
  /\ pc = "pages" /\ off \in asked /\ asked' = asked \ {off}
  /\ \E n \in Answers : Arrives(off, n) /\ landed' = With(landed, off, n)
  /\ UNCHANGED <<size, filter, pc, place, got, result, refused>>

\* Any failure of a page in a wave fails the fetch, whatever its kind.
PageBreaks(off) ==
  /\ pc = "pages" /\ off \in asked /\ Refusal /\ Fails
  /\ UNCHANGED <<size, short, cut>>

\* A short page calls off the higher offsets that have not come.
Look(off) ==
  /\ pc = "pages" /\ off \in DOMAIN landed
  /\ got' = With(got, off, landed[off])
  /\ landed' = Restrict(landed, DOMAIN landed \ {off})
  /\ asked' = IF Short(landed[off]) THEN {o \in asked : o < off} ELSE asked
  /\ UNCHANGED <<size, filter, pc, place, result, short, refused, cut>>

\* mutant: by the concurrency that will be used next
AdvanceRequested == next + Requested * PageLimit

\* By the concurrency that the wave used.
Advance == next + conc * PageLimit

\* mutant: the end that is read again is read again
VerifyAgain(p, off) ==
  /\ pages' = Below(p, off) /\ next' = off /\ conc' = 1 /\ UNCHANGED resumed
  /\ pc' = "wave" /\ UNCHANGED result

\* _resume_hard_verify_from
Verify(p, off) ==
  /\ pages' = Below(p, off) /\ next' = off /\ conc' = 1 /\ resumed' = TRUE
  /\ pc' = "wave" /\ UNCHANGED result

\* A wave has ended: on with the next one, or this is the end, verified once.
Assess ==
  /\ pc = "pages" /\ asked = {} /\ landed = <<>>
  /\ LET p == Joined(got, pages)
         ends == {o \in DOMAIN p : Short(p[o])}
         first == Min(ends)
         hole == \E o \in DOMAIN p : o > first /\ p[o] > 0
     IN \/ /\ ends = {} /\ pages' = p /\ next' = Advance
           /\ conc' = IF resumed THEN Requested ELSE conc
           /\ pc' = "wave" /\ UNCHANGED <<resumed, result>>
        \/ ends # {} /\ ~resumed /\ (hole \/ p[first] < SoftMin) /\ Verify(p, first)
        \/ /\ ends # {} /\ ~resumed /\ ~hole /\ p[first] >= SoftMin
           /\ pages' = Below(p, first + 1) /\ next' = first /\ pc' = "peek"
           /\ UNCHANGED <<conc, resumed, result>>
        \/ ends # {} /\ resumed /\ hole /\ pc' = "failed" /\ UNCHANGED <<place, result>>
        \/ ends # {} /\ resumed /\ ~hole /\ Return(p) /\ UNCHANGED <<next, conc, resumed>>
  /\ got' = <<>>
  /\ UNCHANGED <<size, filter, asked, landed, short, refused, cut>>

\* Nothing behind a large short page is the end; else the page is read again.
Peek ==
  /\ pc = "peek" /\ resumed' = TRUE
  /\ \E n \in Answers :
       /\ Arrives(next + PageLimit, n)
       /\ IF n = 0 THEN Return(pages) /\ UNCHANGED conc
          ELSE pages' = Below(pages, next) /\ conc' = Requested /\ pc' = "wave" /\ UNCHANGED result
  /\ UNCHANGED <<size, filter, next, wave, refused>>

-----------------------------------------------------------------------------
PagerReads ==
  \/ Count \/ First \/ Launch \/ Assess \/ Peek
  \/ \E off \in asked : Land(off)
  \/ \E off \in DOMAIN landed : Look(off)
PagerNext == PagerReads \/ Breaks \/ Refused \/ \E off \in asked : PageBreaks(off)

PagerSpec == PagerInit /\ [][PagerNext]_pagerVars /\ WF_pagerVars(PagerReads)

-----------------------------------------------------------------------------
\* What is returned has no hole: whatever was truncated, called off, read
\* again or peeked at, it is the list up to some item.
NoGap == pc = "done" => result = 1..Cardinality(result)

\* The offset of the last page of the list.
LastOffset == Max({off \in {i * PageLimit : i \in 0..size} : off = 0 \/ Truth(off) > 0})

\* One truncated page, in whatever wave and order, costs at most items of the
\* last page, unless it is the very first page, which nothing verifies.
LastPageOnly == (pc = "done" /\ short <= 1 /\ 0 \notin cut) => 1..LastOffset \subseteq result

\* The fetch ends, though an end may be false and be read again.
PagerEnds == <>(pc \in {"done", "failed"})
=============================================================================
