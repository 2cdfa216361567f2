----------------------------- MODULE CatalogTail -----------------------------
(***************************************************************************)
(* The last stages of a sync run, over the rows of the catalog: operators  *)
(* and territory from the PSTN registry (the local ranges first, then      *)
(* lookups in waves), the split and place of geographic numbers from the   *)
(* directory of regions, and the type from the directory of masks.  The    *)
(* settings pages import both directories meanwhile, and the process may   *)
(* restart between two commits.                                            *)
(***************************************************************************)
EXTENDS CatalogRows

CONSTANTS
  Rows,         \* the rows of the catalog
  Slices,       \* the sets of rows that one provider job replaces
  Fresh,        \* per row: its number and the operator that its provider names
  Seeds,        \* sequences of registry rows the local cache may hold
  Registry,     \* rows that a lookup may return
  RegionFiles,  \* files for the directory of regions, and its rows at first
  Masks,        \* the masks of interest, of all that there are
  MaskFiles,    \* files for the directory of masks, and its rows at first
  BatchSize,    \* rows per UPDATE of operators
  MaxRounds,    \* waves of lookups in one run
  MaxRuns,      \* bound on the runs
  MaxEdits,     \* bound on the imports
  MaxFaults     \* bound on failed stages and restarts

ASSUME SliceAssumption == UNION Slices = Rows

\* What the registry may say: its codes have three digits, which the code takes
\* for granted (parse_msisdn_parts), and no operator is named as the sentinel
\* is; of a number that it has it names the operator (classify_lookup_response).
Digits == Seq(0..9)
Places == SUBSET STRING
Phones == {Fresh[r].num : r \in Rows}
ApiRows == [abc : Digits, lo : Nat, hi : Nat, op : STRING, gar : Seq(Places)]
ASSUME FreshAssumption == \A r \in Rows : Fresh[r].num \in Digits /\ Fresh[r].op # Sentinel
ASSUME SeedAssumption == \A seed \in Seeds :
  seed \in Seq(ApiRows) /\ \A i \in DOMAIN seed : Len(seed[i].abc) = 3 /\ seed[i].op # Sentinel
ASSUME RegistryAssumption == \A phone \in Phones : \A row \in Registry[phone] :
  row \in ApiRows /\ Len(row.abc) = 3 /\ row.op \notin {Nothing, Sentinel}
ASSUME RegionAssumption == \A file \in RegionFiles : \A d \in file : d.abc \in Digits
ASSUME TailAssumption == BatchSize \in Nat \ {0} /\ {MaxRounds, MaxRuns, MaxEdits, MaxFaults} \subseteq Nat

VARIABLES
  up,        \* the process has booted
  rows,      \* numbers_catalog_normalized
  regions,   \* regions_directory
  masks,     \* mask_types
  pc,        \* the stage of the run
  cache,     \* the ranges that this run knows
  pending,   \* rows without an operator yet
  asked,     \* phones of the wave without an answer yet
  direct,    \* phones whose answer named an operator, with it
  absent,    \* phones that the registry does not have
  updates,   \* rows to write, with what is written
  rounds,    \* waves begun
  outcome,   \* per stage: it has run, or failed, in this run
  runs, edits, faults,
  said,      \* (history) phones of which the registry ever said that it has none
  blank,     \* (history) phones ever answered below 400 with nothing to read
  seen       \* (history) the directories as the stages of this run read them

directories == <<regions, masks>>
waves == <<cache, pending, asked, direct, absent, rounds>>
bounds == <<runs, edits, faults>>
tailVars == <<up, rows, directories, pc, waves, updates, outcome, bounds, said, blank, seen>>

TailFault == faults < MaxFaults /\ faults' = faults + 1
Stages == {"enrich", "regions", "masks"}

\* A row that a provider job has just inserted: the operator that the row had
\* is kept when the provider names none, places are left to the last stages.
Inserted(r, had) ==
  LET split == Split(Fresh[r].num)
  IN [num |-> Fresh[r].num, op |-> IF Fresh[r].op = Nothing THEN had ELSE Fresh[r].op,
      city |-> {}, region |-> {}, abc |-> split.abc, local |-> split.local, type |-> Nothing]

TailInit ==
  /\ up = FALSE /\ rows = [r \in Rows |-> Inserted(r, Nothing)]
  /\ regions \in RegionFiles /\ masks \in {{file[i] : i \in DOMAIN file} : file \in MaskFiles}
  /\ pc = "idle" /\ cache = <<>> /\ pending = {} /\ asked = {} /\ direct = <<>> /\ absent = {}
  /\ rounds = 0 /\ updates = <<>> /\ outcome = [s \in Stages |-> Nothing]
  /\ runs = 0 /\ edits = 0 /\ faults = 0 /\ said = {} /\ blank = {} /\ seen = [regions |-> {}, masks |-> {}]

-----------------------------------------------------------------------------
(* Boot, restart and the settings pages.                                   *)

Boot ==
  /\ ~up /\ up' = TRUE /\ masks' = MasksSeeded(masks, Masks)
  /\ UNCHANGED <<rows, regions, pc, waves, updates, outcome, bounds, said, blank, seen>>

Dropped ==
  /\ pc' = "idle" /\ cache' = <<>> /\ pending' = {} /\ asked' = {} /\ direct' = <<>>
  /\ absent' = {} /\ rounds' = 0 /\ updates' = <<>>

ProcessDies ==
  /\ up /\ pc # "idle" /\ TailFault /\ up' = FALSE /\ Dropped
  /\ UNCHANGED <<rows, directories, outcome, runs, edits, said, blank, seen>>

Edit == up /\ edits < MaxEdits /\ edits' = edits + 1

\* replace_from_xlsx
ImportRegions(file) ==
  /\ Edit /\ regions' = file
  /\ UNCHANGED <<up, rows, masks, pc, waves, updates, outcome, runs, faults, said, blank, seen>>

\* upsert_from_xlsx: what was missing is seeded even if the file is refused.
ImportMasks(file) ==
  /\ Edit
  /\ masks' = LET seeded == MasksSeeded(masks, Masks)
              IN IF Accepts(file) THEN Imported(seeded, Parsed(file)) ELSE seeded
  /\ UNCHANGED <<up, rows, regions, pc, waves, updates, outcome, runs, faults, said, blank, seen>>

-----------------------------------------------------------------------------
(* The run: the slices that its providers have replaced are as inserted.   *)

StartRun(replaced) ==
  /\ up /\ pc = "idle" /\ runs < MaxRuns /\ runs' = runs + 1
  /\ rows' = [r \in Rows |-> IF r \in UNION replaced THEN Inserted(r, rows[r].op) ELSE rows[r]]
  /\ pc' = "match" /\ outcome' = [s \in Stages |-> Nothing]
  /\ UNCHANGED <<up, directories, waves, updates, edits, faults, said, blank, seen>>

StageEnds(stage, result, next) == outcome' = [outcome EXCEPT ![stage] = result] /\ pc' = next

-----------------------------------------------------------------------------
(* Operators.                                                              *)

\* No connection, or no range with a GAR: the stage fails before any row.
NoRegistry ==
  /\ pc = "match" /\ TailFault /\ StageEnds("enrich", "failed", "regions")
  /\ UNCHANGED <<up, rows, directories, waves, updates, runs, edits, said, blank, seen>>

Phone(r) == rows[r].num

\* By the split of the row, else by its digits.
FirstMatch(c, r) ==
  LET match == Resolve(c, rows[r].abc, rows[r].local)
  IN IF match # NoMatch THEN match ELSE ResolveNumber(c, Phone(r))

\* The updates that change a row.
Changes(decided) ==
  LET changed == {r \in DOMAIN decided : decided[r] # rows[r]}
  IN [r \in changed \cup DOMAIN updates |-> IF r \in changed THEN decided[r] ELSE updates[r]]

\* Every row against the local ranges; a number that cannot be looked up is
\* not in the registry.
Match ==
  /\ pc = "match" /\ pc' = "wave"
  /\ \E c \in {Seeded(s) : s \in Seeds} :
       LET hit == {r \in Rows : FirstMatch(c, r) # NoMatch}
           invalid == {r \in Rows \ hit : ~Valid(Phone(r))}
       IN /\ cache' = c
          /\ updates' = Changes([r \in hit \cup invalid |->
               IF r \in hit THEN Updated(rows[r], FirstMatch(c, r), FALSE)
               ELSE Updated(rows[r], [NoMatch EXCEPT !.op = Sentinel], TRUE)])
          /\ pending' = Rows \ (hit \cup invalid)
  /\ UNCHANGED <<up, rows, directories, asked, direct, absent, rounds, outcome, bounds, said, blank, seen>>

\* A range first, then the answer for the number itself, then its absence.
WaveMatch(r) ==
  LET match == ResolveNumber(cache, Phone(r))
  IN IF match = NoMatch /\ Phone(r) \in DOMAIN direct
     THEN [NoMatch EXCEPT !.op = direct[Phone(r)]] ELSE match
Decided == {r \in pending : WaveMatch(r) # NoMatch \/ Phone(r) \in absent}
Decision(r) ==
  IF WaveMatch(r) # NoMatch THEN Updated(rows[r], WaveMatch(r), FALSE)
  ELSE Updated(rows[r], [NoMatch EXCEPT !.op = Sentinel], TRUE)

\* Between two waves: rows that an answer decides, and the phones to ask next.
Wave ==
  /\ pc = "wave"
  /\ updates' = Changes([r \in Decided |-> Decision(r)])
  /\ pending' = pending \ Decided
  /\ IF pending' = {} \/ rounds = MaxRounds
     THEN pc' = "write" /\ UNCHANGED <<asked, rounds>>
     ELSE pc' = "ask" /\ rounds' = rounds + 1 /\ asked' = {Phone(r) : r \in pending'}
  /\ UNCHANGED <<up, rows, directories, cache, direct, absent, outcome, bounds, said, blank, seen>>

\* What may come back for a phone: found = false, a refusal (400, 404, 422), a
\* redirection or a body below 400 that is no JSON object, a refused key or
\* another 4xx, a 5xx or a broken connection, a row with its operator.
Replies == {"missing", "rejected", "blank", "denied", "broken", "found"}

\* mutant: any refusal of the client is an absence
ClassifyAnyRefusal(reply) ==
  CASE reply \in {"missing", "rejected", "blank", "denied"} -> "absent"
    [] reply = "broken" -> "error"
    [] reply = "found" -> "found"

\* classify_lookup_response: what names no operator and is below 400 is an
\* absence, whether or not it can be read.
Classify(reply) ==
  CASE reply \in {"missing", "rejected", "blank"} -> "absent"
    [] reply \in {"denied", "broken"} -> "error"
    [] reply = "found" -> "found"

\* lookup_phone_row, in any order within a wave.
Reply(phone) ==
  /\ pc = "ask" /\ phone \in asked
  /\ \E reply \in Replies :
       /\ said' = IF reply \in {"missing", "rejected"} THEN said \cup {phone} ELSE said
       /\ blank' = IF reply = "blank" THEN blank \cup {phone} ELSE blank
       /\ CASE Classify(reply) = "absent" -> absent' = absent \cup {phone} /\ UNCHANGED <<cache, direct>>
            [] Classify(reply) = "error" -> UNCHANGED <<cache, direct, absent>>
            [] Classify(reply) = "found" ->
                 \E row \in Registry[phone] :
                   /\ cache' = Add(cache, FromApi(row)) /\ UNCHANGED absent
                   /\ direct' = [p \in DOMAIN direct \cup {phone} |-> IF p = phone THEN row.op ELSE direct[p]]
  /\ asked' = asked \ {phone}
  /\ pc' = IF asked' = {} THEN "wave" ELSE "ask"
  /\ UNCHANGED <<up, rows, directories, pending, rounds, updates, outcome, bounds, seen>>

\* A batch of updates and its commit.
Write(batch) ==
  /\ pc = "write"
  /\ rows' = [r \in Rows |-> IF r \in batch THEN updates[r] ELSE rows[r]]
  /\ updates' = [r \in DOMAIN updates \ batch |-> updates[r]]
  /\ UNCHANGED <<up, directories, pc, waves, outcome, bounds, said, blank, seen>>

\* An error of the database leaves a transaction that neither the updates row
\* by row nor the log of the failure can use: the run crashes.
WriteFails ==
  /\ pc = "write" /\ updates # <<>> /\ TailFault /\ Dropped
  /\ outcome' = [outcome EXCEPT !["enrich"] = "failed"]
  /\ UNCHANGED <<up, rows, directories, runs, edits, said, blank, seen>>

\* The stage fails if a row is left without an answer or without an operator.
Covered == pending = {} /\ \A r \in Rows : rows[r].op # Nothing
EnrichEnds ==
  /\ pc = "write" /\ updates = <<>>
  /\ StageEnds("enrich", IF Covered THEN "ok" ELSE "failed", "regions")
  /\ UNCHANGED <<up, rows, directories, waves, updates, bounds, said, blank, seen>>

-----------------------------------------------------------------------------
(* Regions, then masks.                                                    *)

ApplyRegions ==
  /\ pc = "regions" /\ StageEnds("regions", "ok", "seed")
  /\ rows' = [r \in Rows |-> IF IsGeographic(Phone(r)) THEN Located(rows[r], regions) ELSE rows[r]]
  /\ seen' = [seen EXCEPT !.regions = regions]
  /\ UNCHANGED <<up, directories, waves, updates, bounds, said, blank>>

RegionsFail ==
  /\ pc = "regions" /\ TailFault /\ StageEnds("regions", "failed", "seed")
  /\ UNCHANGED <<up, rows, directories, waves, updates, runs, edits, said, blank, seen>>

SeedMasks ==
  /\ pc = "seed" /\ pc' = "masks" /\ masks' = MasksSeeded(masks, Masks)
  /\ UNCHANGED <<up, rows, regions, waves, updates, outcome, bounds, said, blank, seen>>

RunEnds(result) ==
  /\ Dropped /\ outcome' = [outcome EXCEPT !["masks"] = result]

ApplyMasks ==
  /\ pc = "masks" /\ RunEnds("ok")
  /\ rows' = [r \in Rows |-> [rows[r] EXCEPT !.type = MaskType(masks, Line(Phone(r)), rows[r].abc, rows[r].local)]]
  /\ seen' = [seen EXCEPT !.masks = masks]
  /\ UNCHANGED <<up, directories, bounds, said, blank>>

MasksFail ==
  /\ pc \in {"seed", "masks"} /\ TailFault /\ RunEnds("failed")
  /\ UNCHANGED <<up, rows, directories, runs, edits, said, blank, seen>>

-----------------------------------------------------------------------------
Batches == {b \in SUBSET DOMAIN updates : Cardinality(b) = Min({BatchSize, Cardinality(DOMAIN updates)})}
Stage ==
  \/ Match \/ Wave \/ EnrichEnds \/ ApplyRegions \/ SeedMasks \/ ApplyMasks
  \/ \E phone \in asked : Reply(phone)
  \/ updates # <<>> /\ \E batch \in Batches : Write(batch)
TailNext ==
  \/ Stage
  \/ Boot \/ ProcessDies
  \/ \E file \in RegionFiles : ImportRegions(file)
  \/ \E file \in MaskFiles : ImportMasks(file)
  \/ \E replaced \in SUBSET Slices : StartRun(replaced)
  \/ NoRegistry \/ WriteFails \/ RegionsFail \/ MasksFail

TailSpec == TailInit /\ [][TailNext]_tailVars

-----------------------------------------------------------------------------
\* "Not in the registry" is written only of a number that cannot be asked, or
\* that the registry said it does not have, in this run or one before - or of
\* which it was answered below 400 with nothing to read, which the code takes
\* for the same.  A refused key, a failing server or a broken connection never
\* becomes an absence, whatever the order of answers, waves and runs, and
\* though an inserted row keeps the operator that it had.
SentinelConfirmed == \A r \in Rows :
  rows[r].op = Sentinel => ~Valid(rows[r].num) \/ rows[r].num \in said \cup blank

\* When the stage ends well, the operator of a row is that of the first range
\* that came and covers it, though later waves brought ranges over it, unless
\* the registry answered for the number itself.
FirstRangeWins == (pc \in {"regions", "seed", "masks"} /\ outcome["enrich"] = "ok") =>
  \A r \in Rows :
    LET num == rows[r].num
        over == IF Valid(num) THEN Covering(cache, Split(num).abc, Split(num).local) ELSE {}
    IN \/ over # {} /\ rows[r].op = cache[Min(over)].op
       \/ num \in DOMAIN direct /\ rows[r].op = direct[num]
       \/ (num \in absent \/ ~Valid(num)) /\ rows[r].op = Sentinel

\* After a run whose last stages have all ended well, rows that were kept from
\* earlier runs included: a geographic number has the split and the place of
\* the directory, and the type of a row is that of its present split.
TailConsistent == (pc = "idle" /\ \A s \in Stages : outcome[s] = "ok") =>
  \A r \in Rows :
    LET row == rows[r]
        listed == {d \in seen.regions : IsPrefix(d.abc, row.num)}
    IN /\ IsGeographic(row.num) =>
            IF listed = {} THEN row.abc = Split(row.num).abc /\ row.city = {}
            ELSE \E d \in listed : /\ row.abc = d.abc /\ row.city = d.city /\ row.region = d.region
                                   /\ \A e \in listed : Len(e.abc) <= Len(d.abc)
       /\ Valid(row.num) => row.abc \o row.local = row.num
       /\ row.type = MaskType(seen.masks, Line(row.num), row.abc, row.local)

\* However the directory of masks began and whatever is imported, it has every
\* required row and no two rows of one key, so that a lookup has one answer.
RequiredMasks == up =>
  /\ \A k \in RequiredKeys(Masks) : IsRequired(k) => \E row \in masks : Key(row) = k
  /\ \A a, b \in masks : Key(a) = Key(b) => a = b
===============================================================================
