------------------------------- MODULE MCMedia ------------------------------
(***************************************************************************)
(* Values of Media's constants for TLC.                                    *)
(***************************************************************************)
EXTENDS MediaLedger, TLC

\* A limit row that says nothing, and the ones the quota runs use.
Unlimited == [assets |-> NoLimit, bytes |-> NoLimit,
              count |-> [c \in Class |-> NoLimit], file |-> [c \in Class |-> NoLimit],
              storage |-> [c \in Class |-> NoLimit]]
OneUnlimited == {Unlimited}

Photo(n) == [size |-> n, kind |-> "photo"]
Video(n) == [size |-> n, kind |-> "video"]

\* The declared photo, an object that fails verification, one of another size.
OneBody == {Photo(1)}

DirectBodies == {Photo(1), [size |-> 1, kind |-> "bad"]}

\* A photo, and a video whose box runs past the end of a full prefix.
LocalBodies == {Photo(1), [size |-> 2, kind |-> "torn"]}

UnknownLength == {-1}

QuotaBodies == {Photo(1), Video(2)}
QuotaClaims == {2, -1}

\* Every limit is reachable: two files or three bytes overall, one photo, two
\* bytes of video, photos of one byte; and the same event without them.
Tight == [assets |-> 2, bytes |-> 3,
          count |-> [photo |-> 1, video |-> NoLimit],
          file |-> [photo |-> 1, video |-> NoLimit],
          storage |-> [photo |-> NoLimit, video |-> 2]]
QuotaLimits == {Tight, Unlimited}

OneStripe == [a \in Asset |-> "s0"]

ProcSymmetry == Permutations(Proc)
ClientSymmetry == Permutations(Proc) \cup Permutations(Request)

=============================================================================
