------------------------ MODULE MCAlienIdAttestation ------------------------
(***************************************************************************)
(* Instance of AlienIdAttestation for TLC: one-byte keys, bytes below 6 (so*)
(* lengths below 36 and timestamps below 648), characters of one and of    *)
(* two bytes, a version above a byte, and timestamps below zero, at the    *)
(* largest that fits, above it and above the range of four bytes.          *)
(***************************************************************************)
EXTENDS AlienIdAttestation

MCKeys == {<<0>>}
MCNonce == <<0>>
MCCredential == <<1>>
MCSchema == <<2>>

MCUtf8 == [narrow |-> <<1>>, wide |-> <<5, 2>>]
MCAddresses == {<<3>>, <<0>>}
MCStrings == {<< >>, <<"wide">>, <<"narrow", "wide">>}
MCProofs == {<< >>, <<2, 5>>}
MCVersions == {2, 7}
MCTimestamps == {-1, 17, 647, 648, 1300}
MCIssuable == {0, -1}

=============================================================================
