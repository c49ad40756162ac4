--------------------------- MODULE VerifiedStore ---------------------------
(***************************************************************************)
(* What the over-the-air update of the data files promises, with nothing   *)
(* said about HTTP, threads or retries.  For every kind of data file the   *)
(* device keeps one installed copy and one recorded version.  An installed *)
(* copy is either a complete published version or Torn, the state of a     *)
(* file that is being replaced or whose replacement was cut short.         *)
(*                                                                         *)
(* The promise: a copy goes from one version to another only through Torn, *)
(* a complete copy is never older than the recorded version, and a version *)
(* is recorded only while exactly that version is installed.               *)
(***************************************************************************)
EXTENDS Integers

CONSTANTS
    Kinds,     \* the kinds of data files
    Version,   \* the versions that may be published, a set of natural numbers
    Torn       \* an installed copy that is no complete version, not in Version

VARIABLES
    installed,  \* installed[k]: the copy on disk, a version or Torn
    recorded    \* recorded[k]: the version written in the properties table

svars == <<installed, recorded>>

StoreTypeOK ==
    /\ installed \in [Kinds -> Version \cup {Torn}]
    /\ recorded \in [Kinds -> Version]

Init ==
    /\ recorded \in [Kinds -> Version]
    /\ installed = recorded

\* The replacement of a copy begins.
Tear(k) ==
    /\ installed' = [installed EXCEPT ![k] = Torn]
    /\ UNCHANGED recorded

\* The replacement ends with a complete version, not older than the record.
Install(k, v) ==
    /\ installed[k] = Torn
    /\ v >= recorded[k]
    /\ installed' = [installed EXCEPT ![k] = v]
    /\ UNCHANGED recorded

\* The version of the complete installed copy becomes the recorded one.
Record(k) ==
    /\ installed[k] # Torn
    /\ installed[k] >= recorded[k]
    /\ recorded' = [recorded EXCEPT ![k] = installed[k]]
    /\ UNCHANGED installed

Next ==
    \E k \in Kinds :
        \/ Tear(k)
        \/ \E v \in Version : Install(k, v)
        \/ Record(k)

Spec == Init /\ [][Next]_svars
=============================================================================
