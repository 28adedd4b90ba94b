----------------------------- MODULE MCReference -----------------------------
(***************************************************************************)
(* Values for the constants of Reference on a small instance.              *)
(***************************************************************************)
EXTENDS Reference

CONSTANTS v1, v2, v3, s1, s2, s3, w1, w2, Accra, Ho   \* datasets, seeds, saves, places

\* Rules that differ between versions, one of which has a false checksum.
MCVersions == {"shipped", "revised", "forged"}
MCGenuine == {"shipped", "revised"}
Rule(code, qualifiers) == [code |-> code, qualifiers |-> qualifiers]
MCRules ==
  [v \in MCVersions |->
     CASE v = "shipped" -> <<Rule("RTCA", "IV BO W"), Rule("MRLC", "IV NBO A")>>
       [] v = "revised" -> <<Rule("MRLC", "IV NBO A"), Rule("MRLC", "IV BO A")>>
       [] v = "forged"  -> <<Rule("MRLC", "V M E")>>]

\* An older dataset and newer ones that know one place more; two saves, of
\* one place each.  One at a time, a seed goes back to the older one.
MCPlaceOf == [w \in {w1, w2} |-> IF w = w1 THEN Accra ELSE Ho]
MCKnown == [v \in {v1, v2, v3} |-> IF v = v1 THEN {Accra} ELSE {Accra, Ho}]
MCVersionOf ==
  [overlap \in BOOLEAN |->
     IF overlap THEN [s \in {s1, s2, s3} |-> IF s = s1 THEN v1 ELSE IF s = s2 THEN v2 ELSE v3]
     ELSE [s \in {s1, s2, s3} |-> IF s = s2 THEN v2 ELSE v1]]

\* Two types of logo with a row to begin with, one without.
MCKindOf == [rename1 |-> "rename", png |-> "upload", svg |-> "upload",
             remove |-> "remove", read1 |-> "read"]
MCEditors == [seeded \in BOOLEAN |-> IF seeded THEN DOMAIN MCKindOf ELSE DOMAIN MCKindOf \ {"svg"}]
MCKind == [seeded \in BOOLEAN |-> [s \in MCEditors[seeded] |-> MCKindOf[s]]]
MCMedia == [s \in DOMAIN MCKindOf |-> IF s = "svg" THEN "image/svg+xml" ELSE "image/png"]

\* Words that are phrases of the tables, and two that contain others.
MCWords == {"strip", "through", "rwy", "near", "clsd", "unserviceable", "wip", "caution"}
MCWithin == [w \in MCWords |->
  IF w = "through" THEN {"thr"}
  ELSE IF w = "unserviceable" THEN {"unserviceable", "serviceable"} ELSE {w}]
MCCatalog == {<<"MR", "LC">>, <<"MW", "HW">>, <<"FA", "AS">>}
=============================================================================
