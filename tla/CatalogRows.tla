----------------------------- MODULE CatalogRows -----------------------------
(***************************************************************************)
(* What the catalog derives from a number: its category, its operator and  *)
(* territory from the ranges of the PSTN registry, its split, city and     *)
(* region from the directory of regions, and its type from the directory   *)
(* of masks.                                                               *)
(*                                                                         *)
(* A number is the sequence of its national digits, without the leading 7. *)
(* A city or region is a set of places with the GAR labels stripped; the   *)
(* empty set is a missing value.                                           *)
(***************************************************************************)
EXTENDS Naturals, SequencesExt, FiniteSetsExt

Nothing == "none"
Sentinel == "not in registry"

-----------------------------------------------------------------------------
(* Numbers and categories.                                                 *)

\* phone_for_lookup and parse_msisdn_parts: only ten digits can be looked up.
Valid(num) == Len(num) = 10

\* split_msisdn_by_capacity; 3+7 unless a directory says otherwise.
SplitAt(num, n) == [abc |-> SubSeq(num, 1, n), local |-> SubSeq(num, n + 1, Len(num))]
Split(num) == IF Valid(num) THEN SplitAt(num, 3) ELSE [abc |-> <<>>, local |-> <<>>]

\* classify_number_category
Category(abc) ==
  CASE abc = <<>> -> Nothing
    [] abc # <<>> /\ abc[1] = 9 -> "mobile"
    [] abc = <<8, 0, 0>> -> "tollfree"
    [] OTHER -> "geographic"

Line(num) == Category(Split(num).abc)
Value(digits) ==
  LET value[n \in 0..Len(digits)] == IF n = 0 THEN 0 ELSE 10 * value[n - 1] + digits[n]
  IN value[Len(digits)]

-----------------------------------------------------------------------------
(* The GAR territory of a range: what is before the first pipe and after   *)
(* the last one, or one side only.                                         *)

NoGeo == [city |-> {}, region |-> {}, clear |-> FALSE]
HasGeo(geo) == geo # NoGeo

\* A list of more than two places is a coverage, not a place.
IsCoverage(side) == Cardinality(side) > 2
Side(side) == IF IsCoverage(side) THEN {} ELSE side
Alias(city) == IF city = {"Kemerovsky"} THEN {"Kemerovo"} ELSE city

\* parse_gar_territory and gar_clears_geo; of a mobile or toll-free range only.
ParseGar(abc, gar) ==
  IF gar = <<>> \/ Category(abc) \notin {"mobile", "tollfree"} THEN NoGeo
  ELSE [city   |-> Alias(Side(Head(gar))),
        region |-> Side(Last(gar)),
        clear  |-> IsCoverage(Head(gar)) \/ IsCoverage(Last(gar))]

\* collapse_mobile_capitals
Capitals == {{"Moscow", "Moscow region"}, {"Petersburg", "Leningrad region"}}
Collapsed(geo) ==
  IF geo.city \cup geo.region \in Capitals
  THEN LET capital == (geo.city \cup geo.region) \cap {"Moscow", "Petersburg"}
       IN [geo EXCEPT !.city = capital, !.region = capital]
  ELSE geo

-----------------------------------------------------------------------------
(* OperatorRangeCache: ranges in the order in which they came.             *)

\* add: the first operator of a range stays; a territory may come later.  A
\* range without a code or an operator is none.
Add(cache, r) ==
  LET same == {i \in DOMAIN cache : cache[i].abc = r.abc /\ cache[i].lo = r.lo /\ cache[i].hi = r.hi}
  IN IF r.abc = <<>> \/ r.op = Nothing \/ r.hi < r.lo THEN cache
     ELSE IF same = {} THEN Append(cache, r)
     ELSE [i \in DOMAIN cache |->
             IF i \in same /\ ~HasGeo(cache[i].geo) THEN [cache[i] EXCEPT !.geo = r.geo] ELSE cache[i]]

\* add_from_api_row; a row without bounds has hi < lo.
FromApi(row) == [abc |-> row.abc, lo |-> row.lo, hi |-> row.hi, op |-> row.op,
                 geo |-> ParseGar(row.abc, row.gar)]
Seeded(rows) ==
  LET load[n \in 0..Len(rows)] == IF n = 0 THEN <<>> ELSE Add(load[n - 1], FromApi(rows[n]))
  IN load[Len(rows)]

NoMatch == [op |-> Nothing, geo |-> NoGeo]
Covering(cache, abc, local) ==
  {i \in DOMAIN cache : cache[i].abc = abc /\ Value(local) \in cache[i].lo..cache[i].hi}

\* mutant: the range that came last
ResolveLatest(cache, abc, local) ==
  LET hits == Covering(cache, abc, local)
  IN IF hits = {} THEN NoMatch ELSE LET r == cache[Max(hits)] IN [op |-> r.op, geo |-> r.geo]

\* resolve_parts: of the ranges that cover a number, the first that came.
Resolve(cache, abc, local) ==
  LET hits == Covering(cache, abc, local)
  IN IF hits = {} THEN NoMatch ELSE LET r == cache[Min(hits)] IN [op |-> r.op, geo |-> r.geo]

\* resolve
ResolveNumber(cache, num) ==
  IF Valid(num) THEN Resolve(cache, Split(num).abc, Split(num).local) ELSE NoMatch

\* catalog_city_region: nothing for a geographic number, the Federation for
\* a toll-free one, the territory for a mobile one.
CityRegion(line, geo, missing) ==
  CASE line \notin {"mobile", "tollfree"} -> NoGeo
    [] line \in {"mobile", "tollfree"} /\ missing -> [NoGeo EXCEPT !.city = {Sentinel}, !.region = {Sentinel}]
    [] line = "tollfree" /\ ~missing -> [NoGeo EXCEPT !.city = {"Russia"}, !.region = {"Russia"}]
    [] line = "mobile" /\ ~missing -> Collapsed(geo)

\* _enqueue_catalog_update: the row as the update leaves it; a mobile number
\* whose range has no territory keeps the place it has.
Updated(row, match, missing) ==
  LET line == Category(IF row.abc # <<>> THEN row.abc ELSE Split(row.num).abc)
      geo == CityRegion(line, match.geo, missing)
      apply == line # "mobile" \/ missing \/ HasGeo(match.geo)
  IN [row EXCEPT !.op = match.op,
                 !.city = IF apply THEN geo.city ELSE @,
                 !.region = IF apply THEN geo.region ELSE @]

-----------------------------------------------------------------------------
(* The directory of regions: ABC, city and region, one row per ABC.        *)

IsGeographic(num) == Valid(num) /\ Line(num) = "geographic"

Placed(row, split, city, region) ==
  [row EXCEPT !.abc = split.abc, !.local = split.local, !.city = city, !.region = region]

\* mutant: a number that has left the directory keeps its last split
LocatedKept(row, directory) ==
  LET hits == {d \in directory : IsPrefix(d.abc, row.num)}
  IN IF hits = {} THEN row
     ELSE LET d == CHOOSE d \in hits : \A e \in hits : Len(e.abc) <= Len(d.abc)
          IN Placed(row, SplitAt(row.num, Len(d.abc)), d.city, d.region)

\* _GEO_UPDATE_SQL: the longest ABC of the directory, else 3+7 and no place.
Located(row, directory) ==
  LET hits == {d \in directory : IsPrefix(d.abc, row.num)}
  IN IF hits = {} THEN Placed(row, Split(row.num), {}, {})
     ELSE LET d == CHOOSE d \in hits : \A e \in hits : Len(e.abc) <= Len(d.abc)
          IN Placed(row, SplitAt(row.num, Len(d.abc)), d.city, d.region)

-----------------------------------------------------------------------------
(* The directory of masks: a set of rows with capacity, category, ABC,     *)
(* mask and type.                                                          *)

\* beauty_mask: a zero stays, another digit is the rank of its first place.
BeautyMask(local) ==
  [i \in DOMAIN local |->
     IF local[i] = 0 THEN 0
     ELSE LET first == Min({j \in DOMAIN local : local[j] = local[i]})
          IN Cardinality({local[j] : j \in 1..first} \ {0})]

Capacities == 5..7
RequiredCategories(cap) == IF cap = 7 THEN {"geographic", "mobile", "tollfree"} ELSE {"geographic"}

\* normalize_import_category
CategoryOf(cap, category) == IF cap \in {5, 6} \/ category = Nothing THEN "geographic" ELSE category

Key(row) == [cap |-> row.cap, category |-> row.category, abc |-> row.abc, mask |-> row.mask]
IsRequired(key) == key.abc = <<>> /\ key.category \in RequiredCategories(key.cap)
Typed(key, type) ==
  [cap |-> key.cap, category |-> key.category, abc |-> key.abc, mask |-> key.mask, type |-> type]
NormalKey(row) ==
  [cap |-> Len(row.mask), category |-> CategoryOf(Len(row.mask), row.category), abc |-> row.abc, mask |-> row.mask]

\* _backfill_digit_capacity and _coerce_directory_categories: rows that come
\* to one key are merged; the row that had the key keeps its type if it has one.
Merged(table) ==
  {LET same == {row \in table : NormalKey(row) = key}
       own  == {row \in same : Key(row) = key /\ row.type # Nothing}
       typed == IF own # {} THEN own ELSE {row \in same : row.type # Nothing}
   IN Typed(key, IF typed = {} THEN Nothing ELSE (CHOOSE row \in typed : TRUE).type) :
     key \in {NormalKey(row) : row \in table}}

\* ensure_mask_types_seeded, over the masks of interest.
RequiredKeys(masks) ==
  {[cap |-> Len(m), category |-> c, abc |-> <<>>, mask |-> m] :
     m \in masks, c \in {"geographic", "mobile", "tollfree"}}
MasksSeeded(table, masks) ==
  LET merged == Merged(table)
      missing == {k \in RequiredKeys(masks) : IsRequired(k)} \ {Key(row) : row \in merged}
  IN merged \cup {Typed(k, Nothing) : k \in missing}

\* parse_mask_types_xlsx: a file is refused for a category it does not know or
\* a key that comes twice.
Parsed(file) == {Typed(NormalKey(file[i]), file[i].type) : i \in DOMAIN file}
Accepts(file) ==
  /\ \A i, j \in DOMAIN file : i # j => NormalKey(file[i]) # NormalKey(file[j])
  /\ \A i \in DOMAIN file : NormalKey(file[i]).category \in {"geographic", "mobile", "tollfree"}

\* mutant: an import drops every row of its masks that the file does not list
ImportedAll(table, file) ==
  {row \in table : row.mask \notin {f.mask : f \in file}} \cup file

\* upsert_from_xlsx: for each mask in the file, its rows and the required ones.
Imported(table, file) ==
  LET keys == {Key(row) : row \in file}
      listed == {row.mask : row \in file}
      kept == {row \in table : Key(row) \notin keys /\ (row.mask \in listed => IsRequired(Key(row)))}
  IN kept \cup file

\* build_mask_type_index and lookup_type_premium: the ABC first, then none.
MaskType(table, line, abc, local) ==
  LET key(a) == [cap |-> Len(local), category |-> line, abc |-> a, mask |-> BeautyMask(local)]
      of(a) == {row \in table : Key(row) = key(a)}
      found == IF of(abc) # {} THEN of(abc) ELSE of(<<>>)
  IN IF Len(local) \notin Capacities \/ found = {} THEN Nothing ELSE (CHOOSE row \in found : TRUE).type
===============================================================================
