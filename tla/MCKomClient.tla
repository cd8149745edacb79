---------------------------- MODULE MCKomClient ----------------------------
(***************************************************************************)
(* Instances of KomClient for TLC: the sets the configurations choose from *)
(* and the symmetry of the calls.                                          *)
(***************************************************************************)
EXTENDS KomClient, TLC

\* The callbacks whose OK method reads its reply to the end over TCP, as far as
\* they differ in how they do it.
ExactKinds == {"generic", "number", "marks", "time", "uconf"}

\* Those whose OK and Error methods both do when the socket can take a rune back.
BufferedKinds == {"generic", "number", "marks"}

\* A callback that looks at the errors of its reads and one that does not: the smallest
\* choice for the liveness properties.
LiveKinds == {"number", "marks"}

\* Callbacks that leave bytes behind, lose one, or send twice.
RoughKinds == {"time", "async"}

\* Those that give their caller one response, whatever they leave of the stream.
OneResponseKinds == Kinds \ {"async"}

CallSymmetry == Permutations(Calls)
=============================================================================
