------------------------------ MODULE MCApiCall ------------------------------
EXTENDS ApiCall

CONSTANTS c1, c2

MCIds == {"x/receipt", "", ".", ".."}
MCSegments == "x/receipt" :> <<"x", "receipt">>
           @@ "" :> <<"">> @@ "." :> <<".">> @@ ".." :> <<"..">>
MCBaseURLs == { [path |-> <<"gw", "pay">>, slash |-> FALSE] }
=============================================================================
