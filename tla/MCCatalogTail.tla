---------------------------- MODULE MCCatalogTail ----------------------------
(* Two mobile numbers of one range, a geographic one and one that is not    *)
(* Russian; ranges that overlap; a directory with an ABC inside another.     *)
EXTENDS CatalogTail

NumA == <<9, 1, 6, 0, 0, 0, 0, 0, 0, 1>>
NumB == <<9, 1, 6, 0, 0, 0, 0, 0, 0, 2>>
NumG == <<4, 9, 5, 1, 2, 3, 3, 0, 4, 4>>
Given(num, op) == [num |-> num, op |-> op]
TheRows == {"a", "b", "g", "x"}
TheSlices == {{"a", "g"}, {"b", "x"}}
TheFresh == [r \in TheRows |->
  CASE r = "a" -> Given(NumA, Nothing) [] r = "b" -> Given(NumB, "brand")
    [] r = "g" -> Given(NumG, Nothing) [] r = "x" -> Given(<<4, 4>>, Nothing)]

ApiRow(abc, lo, hi, op, gar) == [abc |-> abc, lo |-> lo, hi |-> hi, op |-> op, gar |-> gar]
Wide == ApiRow(<<9, 1, 6>>, 0, 5, "wide", <<{"Moscow"}, {"Moscow region"}>>)
Narrow == ApiRow(<<9, 1, 6>>, 1, 1, "narrow", <<>>)
City == ApiRow(<<4, 9, 5>>, 0, 9999999, "city", <<{"Moscow"}>>)
TheSeeds == {<<Narrow, Wide, City>>, <<City>>}
TheRegistry ==
  NumA :> {ApiRow(<<9, 1, 6>>, 1, 2, "both", <<{"Tver", "Tula", "Orel"}, {"Tver"}>>)} @@
  NumB :> {ApiRow(<<9, 1, 6>>, 1, 2, "again", <<>>), ApiRow(<<9, 1, 6>>, 1, 0, "unbounded", <<>>)} @@
  [num \in {NumG, <<4, 4>>} |-> {}]

TheRegions == {{},
  {[abc |-> <<4, 9, 5>>, city |-> {"Moscow"}, region |-> {"Moscow"}],
   [abc |-> <<4, 9, 5, 1, 2>>, city |-> {"Klin"}, region |-> {}]}}
MaskOf(n) == BeautyMask(SubSeq(NumG, n, 10))
MaskRow(category, abc, n, type) ==
  [cap |-> 0, category |-> category, abc |-> abc, mask |-> MaskOf(n), type |-> type]
TheMasks == {MaskOf(4), MaskOf(6)}
TheFiles == {
  <<MaskRow(Nothing, <<>>, 4, "silver"), [MaskRow("geographic", <<>>, 4, "gold") EXCEPT !.cap = 7]>>,
  <<MaskRow("geographic", <<4, 9, 5>>, 4, "gold"), MaskRow("mobile", <<>>, 6, "bronze")>>}
===============================================================================
