------------------------------ MODULE MCStores ------------------------------
EXTENDS Stores
MCInfo(tag) == [concl |-> <<"p">>, hyps |-> <<<<"p">>>>, tags |-> <<tag>>, module |-> "m"]
MCInfos == {MCInfo("algebra"), MCInfo("order")}
MCSteps == {0, 1}
CONSTANTS a, b, x, y, thm, run1
=============================================================================
