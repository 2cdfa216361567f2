-------------------------- MODULE MCNumberingPager --------------------------
EXTENDS NumberingPager
TheSizes == {0, 3, 8, 11, 14, 16, 21}
=============================================================================
