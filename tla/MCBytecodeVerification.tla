---------------------- MODULE MCBytecodeVerification ----------------------
(***************************************************************************)
(* Instances of BytecodeVerification for TLC.                              *)
(***************************************************************************)
EXTENDS BytecodeVerification

CONSTANTS t1, t2, t3

ThreeCandidates == <<t1, t2, t3>>
TwoCandidates == <<t1, t2>>

P(size, auxdatas, metadata, runtime, creation) ==
  [size |-> size, auxdatas |-> auxdatas, metadata |-> metadata,
   runtime |-> runtime, creation |-> creation]

\* Every reason for which a contract matches or does not.
AllProfiles ==
  {P("same", "one", "same", "perfect", "perfect"),
   P("same", "one", "other", "partial", "partial"),
   P("same", "many", "other", "partial", "partial"),
   P("same", "inner", "other", "null", "partial"),
   P("same", "one", "other", "null", "null"),
   P("same", "one", "varied", "partial", "partial"),
   P("differs", "one", "other", "null", "null"),
   P("differs", "many", "other", "partial", "null"),
   P("same", "one", "same", "null", "null"),
   P("same", "many", "varied", "null", "partial"),
   P("zero", "one", "other", "null", "null")}

Request(language, mode, optimizer, ordering, bare) ==
  [language |-> language, mode |-> mode, optimizer |-> optimizer,
   ordering |-> ordering, bare |-> bare]

\* Searches of each language, and the other ways to ask.
AllInputs ==
  {Request("Solidity", "search", TRUE, FALSE, FALSE),
   Request("Solidity", "search", FALSE, TRUE, FALSE),
   Request("Solidity", "search", FALSE, FALSE, TRUE),
   Request("Yul", "search", FALSE, TRUE, FALSE),
   Request("Vyper", "search", FALSE, FALSE, FALSE),
   Request("Solidity", "named", FALSE, TRUE, FALSE),
   Request("Solidity", "metadata", TRUE, FALSE, FALSE)}
===========================================================================
