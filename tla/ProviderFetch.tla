--------------------------- MODULE ProviderFetch ---------------------------
(***************************************************************************)
(* How an adapter reads a slice of its vendor: it opens (canary, principal,*)
(* page size), plans the scopes to be read (regions, cities, categories,   *)
(* files, or the whole list), walks each of them page by page, some side   *)
(* by side, merges what came and accepts it, with or without a warning, or *)
(* refuses it.  The adapters differ in the rule of their page loop and in  *)
(* what they check at the end; Runexis' free list is NumberingPager's.     *)
(*                                                                         *)
(* Numbers are naturals.  Scope 0 is the list asked for without a scope.   *)
(***************************************************************************)
EXTENDS Integers, FiniteSetsExt, SequencesExt, Functions

CONSTANTS
  Limit,       \* page limit
  Window,      \* MAX_OFFSET
  MaxPage,     \* the last page, of the adapters that number their pages
  Attempts,    \* RetryPolicy.max_attempts
  Together,    \* MAX_SLICE_CONCURRENCY
  Listed,      \* scopes that the vendor's dictionaries name
  Unlisted,    \* the scope that they do not name
  Stocks,      \* adapter -> what its vendor may have: scope -> list
  Shops,       \* what Novofon's order shop may have: a set per direction
  MaxExpand,   \* MAX_EXPAND_NUMBERS
  Late,        \* scope -> a number that may be added to its list
  MaxLies,     \* bound on answers that are cut short
  MaxBreaks,   \* bound on calls that fail
  MaxMoves     \* bound on numbers that leave a list or are added to one

Unknown == -1
Scopes == Listed \cup {Unlisted}

ASSUME FetchAssumption ==
  /\ {Limit, Window, MaxPage, Attempts, Together} \subseteq Nat \ {0}
  /\ {MaxLies, MaxBreaks, MaxMoves, MaxExpand} \subseteq Nat
  /\ IsFiniteSet(Scopes) /\ Scopes \subseteq Nat \ {0} /\ Unlisted \notin Listed

FanOut == {"exolve", "mcn", "voximplant"}
Sequential == {"novofon", "uis", "runexis", "sipout", "aurora", "finenumbers"}

\* The adapters that compare how much they have read with a total.
Counting == {"uis", "novofon", "mcn", "voximplant", "runexis"}

\* Their vendors list a number once.
ASSUME StockAssumption ==
  /\ Late \in [Scopes -> Nat] /\ \A d \in Shops : d \in Seq(SUBSET Nat)
  /\ \A a \in FanOut \cup Sequential : \A l \in Stocks[a] :
       /\ l \in [Scopes -> Seq(Nat)]
       /\ a \in Counting => \A s, t \in Scopes :
            /\ IsInjective(l[s]) /\ Late[t] \notin ToSet(l[s])
            /\ s # t => ToSet(l[s]) \cap ToSet(l[t]) = {}

VARIABLES
  adapter, list,   \* the vendor: who, and what it has
  named,           \* it names the length of a list
  bare,            \* Exolve answers a question without a category
  key,             \* Novofon's connection has a User API key
  token,           \* Novofon's Data API token: client, agent, or agent without a user
  slice, stage,
  plan,            \* scopes to be read, in order
  walk,            \* scope -> the state of its page loop
  expected,        \* total_items, when the list is read by category
  kept,            \* of the adapter's instance: whether it has its principal
                   \* or its REG numbers, and which
  scoped,          \* slice -> for whom its numbers are asked: with the user_id
                   \* of an agent's user, or without one, as a client's
  call, attempt,   \* User API: which call, and whether it is repeated
  remaining,       \* x-ratelimit-remaining: some, none, or not known
  reset,           \* x-ratelimit-reset is within 120 s
  shop, sold,      \* the shop, and what has been read of it
  warned, out,     \* slice -> how its reading ended
  lies, breaks, moves,
  blind            \* (history) of the slice: something was cut, by the vendor, by
                   \* the window or by an error that passes for the end of the
                   \* list, and no total is compared with what came

vendor == <<adapter, named, bare, token, key, shop>>
user == <<call, attempt, remaining, reset, sold>>
budget == <<lies, breaks, moves>>
vars == <<vendor, list, slice, stage, plan, walk, expected, kept, scoped, user,
          warned, out, budget, blind>>

Top == Max(Scopes)
InOrder(S) == FlattenSeq([s \in 1..Top |-> IF s \in S THEN <<s>> ELSE <<>>])
Pooled(l, S) == FlattenSeq([s \in 1..Top |-> IF s \in S THEN l[s] ELSE <<>>])
Concat(S) == Pooled(list, S)

\* What the vendor lists in a scope.  Exolve asks by region, so that the scope
\* without a category holds no region which the reference leaves out.
Stock(s) ==
  IF s # 0 THEN list[s]
  ELSE IF adapter # "exolve" THEN Concat(Scopes)
  ELSE IF bare THEN Concat(Listed) ELSE <<>>

Nothing == [kind |-> "none", rows |-> {}, warned |-> FALSE]
Fresh == [pos |-> 0, read |-> <<>>, total |-> Unknown, again |-> FALSE,
          tries |-> 0, at |-> "asking"]

Init ==
  /\ adapter \in FanOut \cup Sequential /\ list \in Stocks[adapter]
  /\ named \in (IF adapter \in {"exolve", "sipout", "aurora", "finenumbers"}
                THEN {FALSE} ELSE BOOLEAN)
  /\ bare \in (IF adapter = "exolve" THEN BOOLEAN ELSE {TRUE})
  /\ token \in (IF adapter = "novofon" THEN {"client", "agent", "userless"} ELSE {"client"})
  /\ key \in (IF adapter = "novofon" THEN BOOLEAN ELSE {FALSE})
  /\ shop \in (IF adapter = "novofon" THEN Shops ELSE {<<>>})
  /\ slice = (IF adapter = "runexis" THEN "purchased" ELSE "free") /\ stage = "open"
  /\ plan = <<>> /\ walk = <<>> /\ expected = Unknown
  /\ kept = [loaded |-> FALSE, keys |-> {}, who |-> "nobody"]
  /\ scoped = [k \in {"free", "purchased"} |-> "nobody"]
  /\ call = 0 /\ attempt = 0 /\ remaining = "unknown" /\ reset = TRUE /\ sold = {}
  /\ warned = FALSE /\ out = [k \in {"free", "purchased"} |-> Nothing]
  /\ lies = 0 /\ breaks = 0 /\ moves = 0 /\ blind = FALSE

-----------------------------------------------------------------------------
(* The rules of the page loops.                                            *)
(*   by     what a page is asked by                                        *)
(*   total  which of the totals named counts: none, the first, the last    *)
(*   short  a short page ends the list when no total is known              *)
(*   empty  an empty page ends it                                          *)
(*   pages  pages are counted against the total, not numbers               *)
(*   again  an empty page behind numbers is asked for once more            *)
(*   over   beyond the window: an error, an error if numbers lack, the end;*)
(*          never, if there is no window                                   *)
(*   lack   fewer numbers than the total: an error, a warning, not looked at *)

UisRule == [by |-> "offset", total |-> "first", short |-> TRUE, empty |-> TRUE,
            pages |-> FALSE, again |-> FALSE, over |-> "lack", lack |-> "warn"]
NovofonRule ==
  [UisRule EXCEPT !.lack = IF expected = Unknown THEN "warn" ELSE "error"]
ExolveRule ==
  [UisRule EXCEPT !.total = "none", !.short = FALSE, !.again = TRUE, !.over = "error",
                  !.lack = "unseen"]
McnRule == [UisRule EXCEPT !.by = "page", !.over = "end", !.lack = "error"]
VoximplantRule == [UisRule EXCEPT !.total = "last", !.over = "error", !.lack = "tail"]
RunexisRule ==
  [UisRule EXCEPT !.by = "page", !.total = "last", !.short = FALSE, !.over = "end",
                  !.lack = "unseen"]
RegRule == [RunexisRule EXCEPT !.pages = TRUE, !.over = "never"]
RangesRule == [RegRule EXCEPT !.empty = FALSE]
SipoutRule == [RunexisRule EXCEPT !.by = "all"]
AuroraRule == SipoutRule

Rule ==
  CASE adapter = "uis" -> UisRule [] adapter = "novofon" -> NovofonRule
    [] adapter = "exolve" -> ExolveRule [] adapter = "mcn" -> McnRule
    [] adapter = "voximplant" -> VoximplantRule [] adapter = "runexis" -> RunexisRule
    [] adapter = "sipout" -> SipoutRule [] adapter = "aurora" -> AuroraRule
    [] adapter = "finenumbers" -> IF stage = "reg" THEN RegRule ELSE RangesRule

-----------------------------------------------------------------------------
(* Answers.                                                                *)

\* The places in the plan that are not read to their end; the first of them run.
Pending == {i \in DOMAIN plan : walk[plan[i]].at # "ended"}
Side == IF adapter \in FanOut THEN Together ELSE 1
Running == {plan[i] : i \in {i \in Pending : Cardinality({j \in Pending : j < i}) < Side}}
Walking == stage \in {"reg", "walk"}

Total(s) == IF named \/ adapter = "finenumbers" THEN Len(Stock(s)) ELSE Unknown

\* The page asked for at w.
Page(s, w) ==
  IF Rule.by = "all" THEN Stock(s)
  ELSE LET skip == IF Rule.by = "page" THEN w.pos * Limit ELSE w.pos
       IN SubSeq(Stock(s), skip + 1, Min({skip + Limit, Len(Stock(s))}))
Cuts(p) == {SubSeq(p, 1, n) : n \in 0..(Len(p) - 1)}

\* The answer p, of the whole or of a part of it.
Comes(p, whole) == IF p = whole THEN UNCHANGED lies ELSE lies < MaxLies /\ lies' = lies + 1

\* Something that is asked or compared later shows that p is cut.
Tells(w, p) ==
  IF adapter = "exolve" THEN p # <<>> \/ (w.read # <<>> /\ ~w.again)
  ELSE named /\ adapter # "runexis"

-----------------------------------------------------------------------------
(* How a slice ends.                                                       *)

Over(o) == stage' = "over" /\ out' = [out EXCEPT ![slice] = o]
Accept(rows) == Over([kind |-> "rows", rows |-> rows, warned |-> warned])
Fail == Over([Nothing EXCEPT !.kind = "failed"])
Refuse == Over([Nothing EXCEPT !.kind = "refused"])

ReadNumbers == UNION {ToSet(walk[s].read) : s \in DOMAIN walk}
SumUp(f) ==
  LET sum[n \in 0..Top] == f[n] + (IF n = 0 THEN 0 ELSE sum[n - 1]) IN sum[Top]
ReadLength == SumUp([s \in 0..Top |-> IF s \in DOMAIN walk THEN Len(walk[s].read) ELSE 0])
TotalLength ==
  SumUp([s \in 0..Top |-> IF s \in DOMAIN walk /\ walk[s].total # Unknown THEN walk[s].total ELSE 0])

-----------------------------------------------------------------------------
(* The page loop.                                                          *)

Noted(w, t) ==
  CASE Rule.total = "first" -> IF w.total = Unknown THEN t ELSE w.total
    [] Rule.total = "last" -> IF t = Unknown THEN w.total ELSE t
    [] OTHER -> Unknown

\* mutant: by what was asked for
AfterLimit(w, p, t) ==
  [w EXCEPT !.read = @ \o p, !.total = Noted(w, t), !.tries = 0,
            !.pos = @ + (IF Rule.by = "page" THEN 1 ELSE IF p = <<>> THEN 0 ELSE Limit)]

\* The loop has the page p, which names the total t: by what came.
After(w, p, t) ==
  [w EXCEPT !.read = @ \o p, !.total = Noted(w, t), !.tries = 0,
            !.pos = @ + (IF Rule.by = "page" THEN 1 ELSE Len(p))]

Lacks(w) ==
  /\ w.total # Unknown
  /\ (IF adapter = "voximplant" THEN Cardinality(ToSet(w.read)) ELSE Len(w.read)) < w.total
Reached(w) ==
  w.total # Unknown /\ (IF Rule.pages THEN w.pos * Limit ELSE Len(w.read)) >= w.total
Closes(w, p) ==
  \/ Rule.by = "all"
  \/ p = <<>> /\ Rule.empty
  \/ Reached(w)
  \/ Rule.short /\ Len(p) < Limit /\ w.total = Unknown
Beyond(w) ==
  Rule.over # "never" /\ IF Rule.by = "page" THEN w.pos >= MaxPage ELSE w.pos > Window
Final(w) == IF Lacks(w) /\ Rule.lack # "unseen" THEN Rule.lack ELSE "end"

\* mutant: the retry is not noted
EmptyAgainAlways(w, p) == Rule.again /\ p = <<>> /\ w.read # <<>>

EmptyAgain(w, p) == Rule.again /\ p = <<>> /\ w.read # <<>> /\ ~w.again

\* What the loop, at w, does about the page p, after which it is at v.
Verdict(w, v, p) ==
  IF w.at = "tail" THEN IF Lacks(v) THEN "warn" ELSE "end"
  ELSE IF adapter = "novofon" /\ expected # Unknown /\ v.total > Window + Limit THEN "error"
  ELSE IF EmptyAgain(w, p) THEN "again"
  ELSE IF Closes(v, p) THEN Final(v)
  ELSE IF Beyond(v) THEN CASE Rule.over = "end" -> Final(v)
                           [] Rule.over = "lack" /\ ~Lacks(v) -> "end"
                           [] OTHER -> "error"
  ELSE "on"

ReadPage(s) ==
  /\ Walking /\ s \in Running
  /\ LET w == walk[s]  whole == Page(s, w)
     IN \E p \in Cuts(whole) \cup {whole} :
          /\ Comes(p, whole)
          /\ LET v == After(w, p, Total(s))  verdict == Verdict(w, v, p)
             IN /\ blind' = \/ blind
                            \/ p # whole /\ ~Tells(w, p)
                            \/ verdict = "end" /\ v.total = Unknown /\ ~Closes(v, p)
                /\ walk' = [walk EXCEPT ![s] =
                     [v EXCEPT !.again = (verdict = "again"),
                               !.at = CASE verdict \in {"on", "again"} -> "asking"
                                        [] verdict = "tail" -> "tail"
                                        [] OTHER -> "ended"]]
                /\ warned' = (warned \/ (verdict = "warn" /\ adapter # "voximplant"))
                /\ IF verdict = "error" THEN Fail ELSE UNCHANGED <<stage, out>>
  /\ UNCHANGED <<vendor, list, slice, plan, expected, kept, scoped, user, breaks, moves>>

Broken == breaks < MaxBreaks /\ breaks' = breaks + 1

\* Failures of a call: no answer, 502 to 504, another 5xx, too many calls in
\* the window, a token that has expired, any other refusal, and an answer that
\* is no error and no JSON.
Failures == {"transport", "gateway", "server", "limit", "expired", "refusal", "unreadable"}

\* Those after which the client makes the call again.
ExolveRepeats == {"transport", "gateway", "limit"}
McnRepeats == {"transport", "gateway"}
VoximplantRepeats == {"transport", "gateway"}
UisRepeats == {"transport", "gateway"}
SipoutRepeats == {"transport", "gateway"}
AuroraRepeats == {"transport", "gateway"}
NovofonRepeats == {"transport", "gateway", "limit"}
RunexisRepeats == {"transport", "gateway", "expired"}
RangesRepeats == {"transport", "gateway", "server", "limit"}
RegRepeats == {"transport", "limit"}
Repeats ==
  CASE adapter = "exolve" -> ExolveRepeats [] adapter = "mcn" -> McnRepeats
    [] adapter = "voximplant" -> VoximplantRepeats [] adapter = "uis" -> UisRepeats
    [] adapter = "sipout" -> SipoutRepeats [] adapter = "aurora" -> AuroraRepeats
    [] adapter = "novofon" -> NovofonRepeats [] adapter = "runexis" -> RunexisRepeats
    [] adapter = "finenumbers" -> IF stage = "reg" THEN RegRepeats ELSE RangesRepeats

\* Failures after which a client takes its list for ended: of Runexis, an error
\* that is a JSON object without data (not every error is); of Finenumbers, what
\* is not JSON.  Exolve takes the latter for an empty page: a page cut to nothing.
EndsList(failure) ==
  CASE adapter = "runexis" -> failure \notin {"transport", "unreadable"}
    [] adapter = "finenumbers" -> failure = "unreadable"
    [] OTHER -> FALSE
FailsFetch(failure) == failure = "unreadable" => adapter \notin {"finenumbers", "exolve"}

\* A call fails: it is made again, or the fetch fails, or the list ends.
Stumble(s) ==
  /\ Walking /\ s \in Running /\ Broken
  /\ \E failure \in Failures :
       IF failure \in Repeats /\ walk[s].tries + 1 < Attempts
       THEN walk' = [walk EXCEPT ![s].tries = @ + 1] /\ UNCHANGED <<stage, out, blind>>
       ELSE \/ FailsFetch(failure) /\ Fail /\ UNCHANGED <<walk, blind>>
            \/ /\ EndsList(failure) /\ blind' = TRUE
               /\ walk' = [walk EXCEPT ![s].at = "ended"] /\ UNCHANGED <<stage, out>>
  /\ UNCHANGED <<vendor, list, slice, plan, expected, kept, scoped, user, warned, lies, moves>>

-----------------------------------------------------------------------------
(* Opening a slice and planning its scopes.                                *)

Start(scopes) ==
  /\ plan' = scopes /\ walk' = [s \in ToSet(scopes) |-> Fresh] /\ stage' = "walk"
  /\ UNCHANGED out

\* Slices that an adapter does not read.
Limitation ==
  /\ stage = "open" /\ slice = "purchased" /\ adapter \in FanOut \cup {"aurora"}
  /\ Over([Nothing EXCEPT !.kind = "limitation"])
  /\ UNCHANGED <<vendor, list, slice, plan, walk, expected, kept, scoped, user, warned, budget,
                 blind>>
Opens(a) ==
  /\ stage = "open" /\ adapter = a /\ ~(slice = "purchased" /\ a \in FanOut)
  /\ UNCHANGED <<vendor, list, slice, scoped, user, warned, breaks, moves, blind>>

\* A call before the walks fails for good, or names nothing to plan from.
BreakOpen ==
  /\ Broken /\ Fail
  /\ \/ stage = "open" /\ adapter \in FanOut /\ slice = "free"
     \/ stage = "open" /\ adapter = "novofon" /\ ~kept.loaded
     \/ stage = "probe"
  /\ UNCHANGED <<vendor, list, slice, plan, walk, expected, kept, scoped, user, warned,
                 lies, moves, blind>>

\* The canary: only if the documented examples with a category have numbers
\* and the questions without one have none, the categories are walked.
PlanExolve ==
  /\ Opens("exolve")
  /\ \E doc \in BOOLEAN, plain \in BOOLEAN :
       LET isDoc == list[Min(Listed)] # <<>>
           isPlain == bare /\ Concat(Listed) # <<>>
           cut == Cardinality({x \in {"doc", "plain"} :
                                 IF x = "doc" THEN doc # isDoc ELSE plain # isPlain})
       IN /\ doc => isDoc
          /\ plain => isPlain
          /\ lies' = lies + cut /\ lies' <= MaxLies
          /\ Start(IF doc /\ ~plain THEN InOrder(Listed) ELSE <<0>>)
  /\ UNCHANGED <<expected, kept>>

Stocked == {s \in Listed : list[s] # <<>>}

\* By city if the country names no total, or shows nothing though cities do.
PlanMcn ==
  /\ Opens("mcn")
  /\ LET whole == Page(0, Fresh)
         cities == InOrder(Stocked)
     IN \E p \in Cuts(whole) \cup {whole} :
          /\ Comes(p, whole)
          /\ LET fanOut == \/ ~named
                           \/ cities # <<>> /\ Total(0) > 0 /\ p = <<>>
             IN Start(IF fanOut /\ cities # <<>> THEN cities ELSE <<0>>)
  /\ UNCHANGED <<expected, kept>>

PlanVoximplant ==
  /\ Opens("voximplant")
  /\ IF Stocked = {} THEN Fail /\ UNCHANGED <<plan, walk>> ELSE Start(InOrder(Stocked))
  /\ UNCHANGED <<expected, kept, lies>>

PlanWhole ==
  /\ Opens("uis") \/ Opens("runexis") \/ Opens("sipout")
  /\ Start(<<0>>) /\ UNCHANGED <<expected, kept, lies>>

\* Every file that is configured, one after the other.
PlanFiles ==
  /\ slice = "free" /\ Opens("aurora")
  /\ Start(InOrder(Scopes)) /\ UNCHANGED <<expected, kept, lies>>

\* mutant: each slice reads REG
RegKnownInSlice == kept.loaded /\ slice = "free"

RegKnown == kept.loaded

\* The REG numbers are read once by an instance; scope Unlisted are the ranges.
PlanFinenumbers ==
  /\ Opens("finenumbers")
  /\ CASE ~RegKnown -> /\ plan' = InOrder(Listed) /\ walk' = [s \in Listed |-> Fresh]
                          /\ stage' = "reg" /\ UNCHANGED out
       [] RegKnown /\ slice = "free" -> Start(<<Unlisted>>)
       [] OTHER -> Accept(kept.keys) /\ UNCHANGED <<plan, walk>>
  /\ UNCHANGED <<expected, kept, lies>>

\* resolve_principal: get.customer_users names users only to an agent.  To
\* anyone it may answer with none, that the method is forbidden, or that its
\* component is off (-32008, which is softened).
UsersAnswers ==
  {"none", "forbidden", "component"} \cup (IF token = "client" THEN {} ELSE {"users"})
AccountAnswers == {"ok", "blank", "forbidden"}

\* An agent's token needs a configured user that get.customer_users lists.
HasUser == token = "agent"
IsClient(users, account) == account = "ok" \/ users = "component"

\* For whom the answers let the numbers be asked; nobody is an error.
Principal(users, account) ==
  IF users = "users" THEN IF HasUser THEN "agent" ELSE "nobody"
  ELSE IF IsClient(users, account) THEN "client" ELSE "nobody"

\* mutant: the instance does not keep the principal
KeepNothing(who) == UNCHANGED kept

Keep(who) == kept' = [kept EXCEPT !.loaded = TRUE, !.who = who]
Adopt(who) == scoped' = [scoped EXCEPT ![slice] = who] /\ stage' = "probe" /\ UNCHANGED out

\* A principal that the instance has is adopted, without a question.
Resolve ==
  /\ stage = "open" /\ adapter = "novofon"
  /\ \/ kept.loaded /\ Adopt(kept.who) /\ UNCHANGED kept
     \/ /\ ~kept.loaded
        /\ \E users \in UsersAnswers, account \in AccountAnswers :
             LET who == Principal(users, account)
             IN IF who = "nobody" THEN Fail /\ UNCHANGED <<scoped, kept>>
                ELSE Adopt(who) /\ Keep(who)
  /\ UNCHANGED <<vendor, list, slice, plan, walk, expected, user, warned, budget, blind>>

\* A list beyond the window is read by category, and must add up.
Probe ==
  /\ stage = "probe"
  /\ IF Total(0) > Window + Limit THEN expected' = Total(0) /\ Start(InOrder(Listed))
     ELSE expected' = Unknown /\ Start(<<0>>)
  /\ UNCHANGED <<vendor, list, slice, kept, scoped, user, warned, budget, blind>>

-----------------------------------------------------------------------------
(* The walks are over.                                                     *)

\* A range is expanded into its numbers.
Expand(r) == {2 * r, 2 * r + 1}
Expanded(ranges) == UNION {Expand(r) : r \in ranges}

Merged(a) ==
  /\ stage = "walk" /\ adapter = a /\ Pending = {}
  /\ UNCHANGED <<vendor, list, slice, plan, walk, expected, scoped, kept, user, budget, blind>>

MergeExolve ==
  /\ Merged("exolve") /\ UNCHANGED warned
  /\ IF ReadLength = 0 THEN Fail ELSE Accept(ReadNumbers)

MergeMcn ==
  /\ Merged("mcn") /\ UNCHANGED warned
  /\ IF ReadLength < TotalLength THEN Fail ELSE Accept(ReadNumbers)

\* Fewer different numbers than the totals name is a warning.
MergeVoximplant ==
  /\ Merged("voximplant")
  /\ warned' = (Cardinality(ReadNumbers) < TotalLength)
  /\ Over([kind |-> "rows", rows |-> ReadNumbers, warned |-> warned'])

MergeRest ==
  /\ Merged("uis") \/ Merged("runexis") \/ Merged("sipout") \/ Merged("aurora")
  /\ Accept(ReadNumbers) /\ UNCHANGED warned

AddsUp == expected = Unknown \/ ReadLength = expected

\* Without a key for the User API the Data API's list is all there is.
MergeNovofon ==
  /\ Merged("novofon") /\ UNCHANGED warned
  /\ CASE ~AddsUp -> Fail
       [] AddsUp /\ key -> stage' = "shop" /\ UNCHANGED out
       [] OTHER -> Accept(ReadNumbers)

RegLoaded ==
  /\ stage = "reg" /\ Pending = {}
  /\ kept' = [loaded |-> TRUE, keys |-> ReadNumbers, who |-> "nobody"]
  /\ IF slice = "free" THEN Start(<<Unlisted>>)
     ELSE Accept(ReadNumbers) /\ UNCHANGED <<plan, walk>>
  /\ UNCHANGED <<vendor, list, slice, expected, scoped, user, warned, budget, blind>>

\* The ranges without the numbers that REG has.
MergeFinenumbers ==
  /\ Merged("finenumbers") /\ UNCHANGED warned
  /\ LET numbers == Expanded(ReadNumbers)
     IN IF Cardinality(numbers) > MaxExpand THEN Fail ELSE Accept(numbers \ kept.keys)

-----------------------------------------------------------------------------
(* Novofon's User API: the order shop (countries, directions, the numbers  *)
(* of each direction), or the list of the cabinet.                         *)

Calls == IF slice = "purchased" \/ shop = <<>> THEN 1 ELSE 2 + Len(shop)
Directions == ToSet(shop)

\* What the call lists: numbers, from the third call on or of the cabinet.
Listing ==
  IF slice = "purchased" THEN UNION Directions
  ELSE IF call >= 2 THEN shop[call - 1] ELSE {}
Repeated ==
  IF slice = "purchased" THEN \E i, j \in DOMAIN shop : i # j /\ shop[i] \cap shop[j] # {}
  ELSE Listing \cap sold # {}

\* The requests left are known to be none: wait for the reset, if it is near.
AwaitReset ==
  /\ stage = "shop" /\ attempt = 0 /\ remaining = "none"
  /\ IF reset THEN remaining' = "unknown" /\ UNCHANGED <<stage, out>>
     ELSE Refuse /\ UNCHANGED remaining
  /\ UNCHANGED <<vendor, list, slice, plan, walk, expected, kept, scoped, call, attempt, reset,
                 sold, warned, budget, blind>>

Asks == stage = "shop" /\ (attempt = 1 \/ remaining # "none")

\* A transport error is repeated once, 429 once if the reset is near; what
\* is left is an error.
UserBreaks ==
  /\ Asks /\ Broken
  /\ \/ attempt = 0 /\ attempt' = 1 /\ UNCHANGED <<remaining, reset, stage, out>>
     \/ /\ reset' \in BOOLEAN
        /\ IF attempt = 0 /\ reset'
           THEN attempt' = 1 /\ remaining' = "unknown" /\ UNCHANGED <<stage, out>>
           ELSE Refuse /\ UNCHANGED <<attempt, remaining>>
     \/ Refuse /\ UNCHANGED <<attempt, remaining, reset>>
  /\ UNCHANGED <<vendor, list, slice, plan, walk, expected, kept, scoped, call, sold, warned,
                 lies, moves, blind>>

CountsCabinet == named /\ slice = "purchased"

\* Both sources by key.  Of a number in both, the shop's row yields to the Data
\* API's, and the cabinet's does not: which row is kept is not modelled.
Combined == ReadNumbers \cup sold'

\* A number that repeats, or a cabinet that is not as long as it says, refuses
\* the whole.  The last call merges both sources.
UserAnswers ==
  /\ Asks
  /\ remaining' \in {"some", "none"} /\ reset' \in BOOLEAN /\ attempt' = 0
  /\ \E got \in SUBSET Listing :
       /\ Comes(got, Listing)
       /\ blind' = (blind \/ (got # Listing /\ ~(named /\ slice = "purchased")))
       /\ IF Repeated \/ (CountsCabinet /\ got # Listing) THEN Refuse /\ UNCHANGED <<call, sold>>
          ELSE /\ call' = call + 1 /\ sold' = sold \cup got
               /\ IF call' = Calls THEN Accept(Combined) ELSE UNCHANGED <<stage, out>>
  /\ UNCHANGED <<vendor, list, slice, plan, walk, expected, kept, scoped, warned, breaks, moves>>

-----------------------------------------------------------------------------
\* The purchased slice follows the free one, with a new client.
NextSlice ==
  /\ stage = "over" /\ slice = "free" /\ slice' = "purchased" /\ stage' = "open"
  /\ plan' = <<>> /\ walk' = <<>> /\ expected' = Unknown /\ warned' = FALSE
  /\ call' = 0 /\ attempt' = 0 /\ remaining' = "unknown" /\ reset' = TRUE /\ sold' = {}
  /\ blind' = (blind /\ adapter = "finenumbers")
  /\ UNCHANGED <<vendor, list, kept, scoped, out, budget>>

Ended == stage = "over" /\ slice = "purchased"

\* The vendor sells a number, which moves those behind it, or gets a new one.
Moves ==
  /\ ~Ended /\ moves < MaxMoves /\ moves' = moves + 1
  /\ \E s \in Scopes :
       \/ list[s] # <<>> /\ list' = [list EXCEPT ![s] = Tail(@)]
       \/ ~Contains(list[s], Late[s]) /\ list' = [list EXCEPT ![s] = Append(@, Late[s])]
  /\ UNCHANGED <<vendor, slice, stage, plan, walk, expected, kept, scoped, user, warned, out,
                 lies, breaks, blind>>

Plans ==
  \/ Limitation \/ PlanExolve \/ PlanMcn \/ PlanVoximplant \/ PlanWhole \/ PlanFiles
  \/ PlanFinenumbers \/ Resolve \/ Probe
Merges ==
  \/ MergeExolve \/ MergeMcn \/ MergeVoximplant \/ MergeRest \/ MergeNovofon
  \/ RegLoaded \/ MergeFinenumbers
Shopping == AwaitReset \/ UserAnswers
Reads == \/ Plans \/ Merges \/ Shopping \/ NextSlice
         \/ Walking /\ \E s \in Running : ReadPage(s)
Faults == \/ BreakOpen \/ UserBreaks \/ Moves
          \/ Walking /\ \E s \in Running : Stumble(s)
Next == Reads \/ Faults

\* The coroutine goes on as long as its calls return, and they time out.
Spec == Init /\ [][Next]_vars /\ WF_vars(Reads)

-----------------------------------------------------------------------------
Accepted == stage = "over" /\ out[slice].kind = "rows"
NotLate(S) == S \ ToSet(Late)

\* What the slice promises: of the adapters that plan by a dictionary the
\* scopes of the plan, of the others the whole list and the whole shop.
Promised ==
  IF adapter = "finenumbers"
  THEN IF slice = "purchased" THEN ToSet(Concat(Listed))
       ELSE Expanded(ToSet(list[Unlisted])) \ ToSet(Concat(Listed))
  ELSE (UNION {ToSet(Stock(s)) : s \in ToSet(plan)})
       \cup (IF adapter = "novofon" THEN ToSet(Stock(0)) ELSE {})
       \cup (IF stage = "over" /\ key THEN UNION Directions ELSE {})
Missing == NotLate(Promised) \ out[slice].rows

\* A slice that is accepted lacks at most one number for each that was sold
\* meanwhile (two, where the list is one of ranges), or carries a warning,
\* unless an answer was cut, or failed and passed for the end, and nothing was
\* compared with what came.
ShortIsKnown == (Accepted /\ ~blind) =>
  \/ out[slice].warned
  \/ Cardinality(Missing) <= (IF adapter = "finenumbers" THEN 2 * moves ELSE moves)

\* Runexis' list is never longer than its last page reaches, after which the
\* loop ends without a word (a hypothesis of the proof of ShortIsKnown).
PagesSuffice == \A l \in Stocks["runexis"] : Len(Pooled(l, Scopes)) + MaxMoves <= MaxPage * Limit

\* Finenumbers never lists a number as free and as purchased, whatever REG
\* lists at the time of each slice.
DisjointSlices == adapter = "finenumbers" => out["free"].rows \cap out["purchased"].rows = {}

\* The slices of a job are one principal's: whatever the vendor answers about
\* the token, and though the free slice's classification may have failed, the
\* purchased numbers are not asked for a client when the free ones were for an
\* agent's user, nor the other way.
OnePrincipal ==
  scoped["free"] # "nobody" /\ scoped["purchased"] # "nobody" => scoped["free"] = scoped["purchased"]

\* Both slices end, whatever is cut, broken, sold or refused on the way.
FetchEnds == <>Ended
=============================================================================
