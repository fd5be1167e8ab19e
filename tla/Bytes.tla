--------------------------------- MODULE Bytes ---------------------------------
(***************************************************************************)
(* What is made of bytes: signatures and tokens (Signing), and strings     *)
(* (Encodings), by anybody at any time (src/src/utils/crypto.ts).          *)
(***************************************************************************)
EXTENDS Signing, Encodings

BytesInit == SgInit /\ EnInit
BytesNext == (SgNext /\ UNCHANGED envars) \/ (EnNext /\ UNCHANGED sgvars)
BytesSpec == BytesInit /\ [][BytesNext]_<<sgvars, envars>>
-----------------------------------------------------------------------------
(* Properties *)

\* A string or a signature means one thing: what is decoded was encoded, what is
\* verified was signed, as data of that kind, and the other way round
\* (utils/encoder.ts, utils/crypto.ts, utils/jwt.ts).
BytesMeanOneThing ==
    /\ DecodedIsEncoded /\ CheckedCanBeUsed /\ LengthsAreApart
    /\ GoodForOneThing /\ VerifiedIsSigned /\ SignedIsVerified
=============================================================================
