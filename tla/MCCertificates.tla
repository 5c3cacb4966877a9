--------------------------- MODULE MCCertificates ---------------------------
(* Instances of Certificates for TLC. *)
EXTENDS Certificates

CONSTANTS c1, c2, p1, r1

TwoCerts == {c1, c2}
OneCert == {c1}
NoCerts == {}
OneProvider == {p1}
OneRegistrar == {r1}
NoRegistrars == {}

\* The operations a run lets happen.
StorageOps == {"delete", "retention", "timeout", "expire"}
RecordOps == {"save", "delete", "publish", "register"}
SchedulerOps == {"timeout", "hang", "renew", "ari"}
=============================================================================
