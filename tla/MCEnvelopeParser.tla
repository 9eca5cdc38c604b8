-------------------------- MODULE MCEnvelopeParser --------------------------
(* Start tags for EnvelopeParser.                                          *)
EXTENDS EnvelopeParser

CONSTANTS soap11, soap12, a, b

MCSoapNs == {soap11, soap12}

Tag(prefix, local, declares) == [prefix |-> prefix, local |-> local, declares |-> declares]

(* An envelope, one of an unknown namespace, and another document, which  *)
(* may have an envelope inside.                                            *)
MCRoots == {
    Tag("e", "Envelope", << <<"e", soap12>>, <<"x", a>> >>),
    Tag("e", "Envelope", << <<"e", b>> >>),
    Tag("w", "Wrapper", << <<"w", a>> >>) }

(* The Header is of the other version of SOAP; the Body redeclares a       *)
(* prefix of the Envelope; payload elements inherit or redeclare it.       *)
MCTags == {
    Tag("f", "Header", << <<"f", soap11>> >>),
    Tag("e", "Body", << <<"x", b>> >>),
    Tag("x", "Op", <<>>),
    Tag("x", "Op", << <<"x", soap12>> >>) }
=============================================================================
