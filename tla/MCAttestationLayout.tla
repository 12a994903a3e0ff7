------------------------- MODULE MCAttestationLayout -------------------------
(***************************************************************************)
(* Instance of AttestationLayout for TLC, with one-byte keys and bits for  *)
(* bytes.                                                                  *)
(***************************************************************************)
EXTENDS AttestationView

MCKeys == {<<0>>, <<1>>}
MCNonce == <<0>>
MCCredential == <<1>>
MCSchema == <<0>>

\* Empty, a carry in neither, one or both bytes of the length.
MCPayloads == {<< >>, <<1>>, <<0, 1>>, <<1, 0, 1>>}

\* All of i64: negative, never, next, ...
MCIssuable == i64

=============================================================================
