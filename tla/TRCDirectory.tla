---------------------------- MODULE TRCDirectory ---------------------------
(***************************************************************************)
(* The certs directory of a node agent, where the two components that use  *)
(* it meet: the bootstrap writes TRCs there (Bootstrap), the daemon API    *)
(* loads them into its trust database (TrustCache).                        *)
(***************************************************************************)
CONSTANTS
    Names,     \* names of TRC files: ISD, base and serial number
    Contents,  \* contents of TRC files
    None       \* no such file

TRCs == [Names -> Contents \cup {None}]
NoTRCs == [n \in Names |-> None]

VARIABLE certs   \* the directory

\* fetchFrom puts a TRC there that the AS has added or re-created.
Replace(n) == certs' \in {[certs EXCEPT ![n] = c] : c \in Contents \ {certs[n]}}

\* What the trust cache expects of the directory: TRCs are replaced one at a time,
\* by others, and none is ever removed.
Directory == certs \in TRCs /\ [][\E n \in Names : Replace(n)]_certs
=============================================================================
