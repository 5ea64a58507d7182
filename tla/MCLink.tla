------------------------------- MODULE MCLink -------------------------------
(* Six texts: "v4" and "v4other" are addresses of their own, "v6long" is    *)
(* another spelling of "v6", "v6wide" is its host with another prefix, and   *)
(* "junk" does not parse.                                                    *)
EXTENDS Link

MCTexts == {"v4", "v4other", "v6", "v6long", "v6wide", "junk"}
MCShown == [t \in MCTexts \ {"junk"} |-> IF t = "v6long" THEN "v6" ELSE t]
MCClash == {<<a, b>> \in Addrs \X Addrs : a = b \/ {a, b} = {"v6", "v6wide"}}
MCVolatile == {"v6", "v6wide"}

=============================================================================
