------------------------------ MODULE MCDataTypes ------------------------------
(***************************************************************************)
(* DataTypes for TLC: values of every form, and limits scaled down so that *)
(* every conversion happens within MaxSize elements.                       *)
(***************************************************************************)
EXTENDS DataTypesProperties, TLC

MCAsInt == ("1" :> 1) @@ ("-9" :> -9) @@ ("5000" :> 5000) @@ ("70000" :> 70000)

MCLength == ("1" :> 1) @@ ("-9" :> 2) @@ ("5000" :> 4) @@ ("70000" :> 5)
            @@ ("1.5" :> 3) @@ ("a" :> 1) @@ ("bb" :> 2) @@ ("very long" :> 9)

MCValues == DOMAIN MCLength
MCOrder == ("-9" :> 1) @@ ("1" :> 2) @@ ("a" :> 3) @@ ("very long" :> 4)
MCScoreText == (10 :> "1") @@ (15 :> "1.5")
MCListValues == {"1", "a", "very long"}
MCSetValues == {"1", "-9", "5000", "70000", "a", "very long"}
MCHashFields == {"1", "a", "-9", "very long"}
MCHashValues == {"1", "a", "very long"}
MCMembers == {"1", "-9", "a", "very long"}
MCPositions == {-5, -2, -1, 0, 1, 2}
MCBounds == {5, 10, 15}
===============================================================================
