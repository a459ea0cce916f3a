--------------------------- MODULE MCBrowserQueue ---------------------------
(* Two tabs.  Registry: a mutation sent twice, its key used for something  *)
(* else, and another mutation.  Slots: a mutation and two reads.           *)
EXTENDS BrowserQueue, TLC

CONSTANTS r1, r2, r3, r4, k1, k2, t1, t2

MCKeys == {k1, k2}
MCTabOf == r1 :> t1 @@ r2 :> t1 @@ r3 :> t2 @@ r4 :> t1

RegistryRequests == {r1, r2, r3, r4}
RegistryKeyOf == r1 :> k1 @@ r2 :> k1 @@ r3 :> k1 @@ r4 :> k2
RegistryFingerprintOf == r1 :> "click" @@ r2 :> "click" @@ r3 :> "type" @@ r4 :> "open"

SlotsRequests == {r1, r3, r4}
SlotsKeyOf == r1 :> k1 @@ r3 :> NoKey @@ r4 :> NoKey
SlotsFingerprintOf == r1 :> "click" @@ r3 :> "read" @@ r4 :> "read"
=============================================================================
