---------------------------- MODULE AssetLedger -----------------------------
(***************************************************************************)
(* What the media service promises to guests and administrators, without   *)
(* uploads, locks, stores, retries or crashes: albums that are opened and  *)
(* closed once, and media that are noted, published with content that then *)
(* never changes, withdrawn only because their album is closing, and gone  *)
(* for ever.                                                               *)
(***************************************************************************)
EXTENDS Integers

CONSTANTS
    Medium,     \* media
    Album,      \* albums, numbered in the order they are opened
    Content,    \* what a medium may consist of
    Unknown     \* no content, or content nobody vouches for

VARIABLES
    album,      \* album -> "never", "open", "closing" or "gone"
    place,      \* medium -> "unused", "private", "published" or "gone"
    home,       \* medium -> its album; 0 while it is in none
    content     \* medium -> what whoever opens the published medium gets

ledgerVars == <<album, place, home, content>>

\* A ledger may begin with private media from an older release.
LedgerInit ==
    /\ album \in [Album -> {"never", "open"}]
    /\ place \in [Medium -> {"unused", "private"}]
    /\ \A m \in Medium : IF place[m] = "private" THEN home[m] \in Album /\ album[home[m]] = "open"
                                                 ELSE home[m] = 0
    /\ content = [m \in Medium |-> Unknown]

OpenAlbum(k) ==
    /\ album[k] = "never" /\ \A j \in Album : j < k => album[j] # "never"
    /\ album' = [album EXCEPT ![k] = "open"]
    /\ UNCHANGED <<place, home, content>>

CloseAlbum(k) ==
    /\ album[k] = "open"
    /\ album' = [album EXCEPT ![k] = "closing"]
    /\ UNCHANGED <<place, home, content>>

\* Only an album that nothing belongs to any more can go.
DropAlbum(k) ==
    /\ album[k] = "closing" /\ \A m \in Medium : home[m] # k
    /\ album' = [album EXCEPT ![k] = "gone"]
    /\ UNCHANGED <<place, home, content>>

Note(m, k) ==
    /\ place[m] = "unused" /\ album[k] = "open"
    /\ place' = [place EXCEPT ![m] = "private"]
    /\ home' = [home EXCEPT ![m] = k]
    /\ UNCHANGED <<album, content>>

Publish(m, c) ==
    /\ place[m] = "private" /\ album[home[m]] = "open"
    /\ place' = [place EXCEPT ![m] = "published"]
    /\ content' = [content EXCEPT ![m] = c]
    /\ UNCHANGED <<album, home>>

Withdraw(m) ==
    /\ place[m] = "published" /\ album[home[m]] = "closing"
    /\ place' = [place EXCEPT ![m] = "private"]
    /\ content' = [content EXCEPT ![m] = Unknown]
    /\ UNCHANGED <<album, home>>

Erase(m) ==
    /\ place[m] = "private"
    /\ place' = [place EXCEPT ![m] = "gone"]
    /\ home' = [home EXCEPT ![m] = 0]
    /\ UNCHANGED <<album, content>>

LedgerNext ==
    \/ \E k \in Album : OpenAlbum(k) \/ CloseAlbum(k) \/ DropAlbum(k)
    \/ \E m \in Medium : Withdraw(m) \/ Erase(m)
    \/ \E m \in Medium, k \in Album : Note(m, k)
    \/ \E m \in Medium, c \in Content \cup {Unknown} : Publish(m, c)

LedgerSpec == LedgerInit /\ [][LedgerNext]_ledgerVars

=============================================================================
