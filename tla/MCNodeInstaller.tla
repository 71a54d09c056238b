---------------------------- MODULE MCNodeInstaller ---------------------------
(* Values for the constants of NodeInstaller: passwords by their form.      *)
EXTENDS NodeInstaller

\* "slashes" is a\\b, pasted into JSON it is "slash", a\b, and that in turn is
\* "control", a and a backspace, which JSON does not allow.  "newline" is a\nb,
\* which becomes the two "lines".
MCText == {"random 1", "random 2", "hex", "quote", "slashes", "slash", "control",
           "newline", "lines", "line"}
MCTyped == {"hex", "quote", "slashes", "newline"}

MCparsed ==
    [t \in MCText |->
        CASE t \in {"quote", "control", "lines"} -> Broken
          [] t = "slashes" -> "slash"
          [] t = "slash" -> "control"
          [] t = "newline" -> "lines"
          [] OTHER -> t]

MCfirstLine == [t \in MCText |-> IF t = "lines" THEN "line" ELSE t]

MCrandom == <<"random 1", "random 2">>
=============================================================================
