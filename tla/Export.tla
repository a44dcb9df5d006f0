------------------------------- MODULE Export -------------------------------
(***************************************************************************)
(* internal/export: the names of the exported files, and the directory     *)
(* that export.Run fills.  The CLI is a process of its own: it may be      *)
(* killed at any step and started again, for another event or later, with  *)
(* the same output directory.                                              *)
(*                                                                         *)
(* A name is a sequence of tokens (a word, an extension with its dot, a    *)
(* separator ...); an extension never comes first.  A path is a name below *)
(* its directory.                                                          *)
(***************************************************************************)
EXTENDS Integers, Sequences, FiniteSetsExt

CONSTANTS
    Snapshots,  \* what the runs may find: sequences of original filenames
    Blank,      \* tokens made of spaces and dots
    Separator,  \* "/" and "\"
    Unsafe,     \* control characters and <>:"|?*
    Dotted,     \* extensions
    Device,     \* Windows device names, in lower case
    Lower,      \* strings.ToLower of the tokens that it changes
    Numbered,   \* "_2", "_3" ...: Numbered[n] for n from 2
    MaxTokens,  \* the 180 bytes of a name
    MaxRuns     \* bound: runs of the CLI

VARIABLES
    blind,      \* the file system takes "a" and "A" for the same name
    tree,       \* entry -> "torn", "whole" or "directory"
    files,      \* the filenames of the snapshot of this run, in order
    item,       \* the file being published; the one after the last is the manifest
    exportAt,   \* where the run is
    runs,
    trouble     \* history: something failed that is not the exporter's doing

exportVars == <<blind, tree, files, item, exportAt, runs, trouble>>

(* ------------------------------- names -------------------------------- *)

Each(name, F(_)) == [i \in DOMAIN name |-> F(name[i])]
LowerOf(token) == IF token \in DOMAIN Lower THEN Lower[token] ELSE token
ToLower(name) == Each(name, LowerOf)

\* name[strings.LastIndex(name, "/")+1:]
Base(name) ==
    SubSeq(name, Max({0} \cup {i \in DOMAIN name : name[i] \in Separator}) + 1, Len(name))

TrimRight(name) ==
    SubSeq(name, 1, Max({0} \cup {i \in DOMAIN name : name[i] \notin Blank}))
TrimLeft(name) ==
    SubSeq(name, Min({Len(name) + 1} \cup {i \in DOMAIN name : name[i] \notin Blank}), Len(name))

\* What the code writes itself is in lower case; "_", "photo" and the suffixes
\* need no cleaning, and there are suffixes for as many files as there are.
ASSUME ExportAssumption ==
    /\ MaxTokens \in Nat \ {0} /\ MaxRuns \in Nat
    /\ Snapshots \subseteq Seq(Seq(STRING)) /\ Lower \in [DOMAIN Lower -> STRING]
    /\ \A snapshot \in Snapshots : \A f \in DOMAIN snapshot :
         LET word == TrimLeft(Base(snapshot[f])) IN word = <<>> \/ word[1] \notin Dotted
    /\ {"photo", "photos", ".part", "photodrop-manifest.json"} \cap DOMAIN Lower = {}
    /\ {"_", "photo"} \cap (Blank \cup Separator \cup Unsafe \cup Dotted \cup Device) = {}
    /\ Numbered \in [DOMAIN Numbered -> STRING \ (DOMAIN Lower \cup Blank \cup Separator
                                                  \cup Unsafe \cup Dotted)]
    /\ DOMAIN Numbered \subseteq Nat /\ Blank \cap Unsafe = {}
    /\ \A m, n \in DOMAIN Numbered : Numbered[m] = Numbered[n] => m = n
    /\ \A snapshot \in Snapshots : 2..(Len(snapshot) + 1) \subseteq DOMAIN Numbered

\* strings.SplitN(name, ".", 2)[0]
BeforeDot(name) ==
    SubSeq(name, 1, Min({Len(name) + 1} \cup {i \in DOMAIN name : name[i] \in Dotted}) - 1)
IsDevice(name) == \E d \in Device : ToLower(BeforeDot(name)) = <<d>>

SafeOf(token) == IF token \in Unsafe THEN "_" ELSE token

\* Filename up to the check for devices, and its last two steps.
Cleaned(name) ==
    LET trimmed == TrimRight(TrimLeft(Each(Base(name), SafeOf)))
        word == IF trimmed = <<>> THEN <<"photo">> ELSE trimmed
    IN IF IsDevice(word) THEN <<"_">> \o word ELSE word
Filename(name) ==
    LET long == Cleaned(name) IN TrimRight(SubSeq(long, 1, Min({MaxTokens, Len(long)})))

\* filepath.Ext: from the last dot on.
Stem(name) == IF name[Len(name)] \in Dotted THEN SubSeq(name, 1, Len(name) - 1) ELSE name
Ext(name) == IF name[Len(name)] \in Dotted THEN <<name[Len(name)]>> ELSE <<>>

\* Mutant: a name is taken only by one in the same case.
UsedExactly(names, candidate) == \E i \in DOMAIN names : names[i] = candidate

\* used[strings.ToLower(candidate)]
Used(names, candidate) == \E i \in DOMAIN names : ToLower(names[i]) = ToLower(candidate)

\* filenames: each name as it is, or with the least suffix that is free.  (next
\* only skips suffixes that the same name has already been refused.)
Filenames(originals) ==
    LET with(name, n) == Stem(name) \o <<Numbered[n]>> \o Ext(name)
        upTo[i \in 0..Len(originals)] ==
            IF i = 0 THEN <<>> ELSE
            LET names == upTo[i - 1]
                name == Filename(originals[i])
                free == {n \in DOMAIN Numbered : ~Used(names, with(name, n))}
            IN Append(names, IF Used(names, name) THEN with(name, Min(free)) ELSE name)
    IN upTo[Len(originals)]

(* ----------------------------- the directory -------------------------- *)

ManifestPath == <<"photodrop-manifest.json">>
Photos == <<"photos">>
Path == IF item <= Len(files) THEN Photos \o Filenames(files)[item] ELSE ManifestPath

\* Mutant: the temporary name replaces the extension.
TempByStem == Stem(Path) \o <<".part">>

Temp == Path \o <<".part">>

\* The entry that a path names.
Entry(path) == IF blind THEN ToLower(path) ELSE path
Exists(path) == Entry(path) \in DOMAIN tree
With(path, content) ==
    [e \in DOMAIN tree \cup {Entry(path)} |-> IF e = Entry(path) THEN content ELSE tree[e]]
Without(path) == [e \in DOMAIN tree \ {Entry(path)} |-> tree[e]]

ExportInit ==
    /\ blind \in BOOLEAN
    /\ tree = [e \in {} |-> "torn"]
    /\ files = <<>> /\ item = 1 /\ exportAt = "idle" /\ runs = 0 /\ trouble = FALSE

Fails(excuse) == exportAt' = "failed" /\ trouble' = (trouble \/ excuse)

\* Mutant: os.MkdirAll, which takes a directory that is there.
MayUseAny == TRUE

\* os.Mkdir, and photos in it: the directory is not there yet.
MayUse == Photos \notin DOMAIN tree

RunBegins(snapshot) ==
    /\ exportAt \in {"idle", "failed", "done"} /\ runs < MaxRuns
    /\ MayUse
    /\ runs' = runs + 1 /\ item' = 1
    /\ files' = snapshot /\ tree' = With(Photos, "directory")
    /\ exportAt' = "open"
    /\ UNCHANGED <<blind, trouble>>

\* The directory exists, the event cannot be read, the configuration is wrong.
RunRefused ==
    /\ exportAt \in {"idle", "failed", "done"} /\ runs < MaxRuns
    /\ runs' = runs + 1
    /\ Fails(TRUE)
    /\ UNCHANGED <<blind, tree, files, item>>

\* Snapshot.Open, and publish's exclusive create.
OpenPart ==
    /\ exportAt = "open"
    /\ \/ Fails(TRUE) /\ UNCHANGED tree
       \/ Exists(Temp) /\ Fails(FALSE) /\ UNCHANGED tree
       \/ ~Exists(Temp) /\ tree' = With(Temp, "torn") /\ exportAt' = "copy" /\ UNCHANGED trouble
    /\ UNCHANGED <<blind, files, item, runs>>

\* Mutant: the bytes that came are not counted.
CopyAcceptsAny(delivered) == TRUE

\* n != a.Size, where one byte more than Size would be read.
CopyAccepts(delivered) == delivered = "size"

\* The stream ends early, is longer than the row says, or is right; a failed
\* copy leaves the temporary file to the deferred Remove.
CopyPart ==
    /\ exportAt = "copy"
    /\ \E delivered \in {"short", "size", "long"} :
         /\ tree' = With(Temp, IF delivered = "size" THEN "whole" ELSE "torn")
         /\ IF CopyAccepts(delivered)
            THEN exportAt' = "link" /\ UNCHANGED trouble
            ELSE exportAt' = "drop" /\ trouble' = TRUE
    /\ UNCHANGED <<blind, files, item, runs>>

\* Sync, Close, and Link, which replaces nothing.
LinkPart ==
    /\ exportAt = "link"
    /\ \/ exportAt' = "drop" /\ trouble' = TRUE /\ UNCHANGED tree
       \/ Exists(Path) /\ exportAt' = "drop" /\ UNCHANGED <<tree, trouble>>
       \/ /\ ~Exists(Path)
          /\ tree' = With(Path, tree[Entry(Temp)])
          /\ exportAt' = "linked" /\ UNCHANGED trouble
    /\ UNCHANGED <<blind, files, item, runs>>

\* The deferred Remove, whose error nobody looks at; then the next file, the
\* manifest after the last one, or the end.
RemovePart ==
    /\ exportAt \in {"linked", "drop"}
    /\ \/ tree' = Without(Temp) /\ UNCHANGED trouble
       \/ UNCHANGED tree /\ trouble' = TRUE
    /\ exportAt' = IF exportAt = "drop" THEN "failed"
                   ELSE IF item > Len(files) THEN "done" ELSE "open"
    /\ item' = IF exportAt = "linked" /\ item <= Len(files) THEN item + 1 ELSE item
    /\ UNCHANGED <<blind, files, runs>>

Killed ==
    /\ exportAt \notin {"idle", "failed", "done"}
    /\ Fails(TRUE)
    /\ UNCHANGED <<blind, tree, files, item, runs>>

ExportNext ==
    \/ OpenPart \/ CopyPart \/ LinkPart \/ RemovePart \/ Killed \/ RunRefused
    \/ \E snapshot \in Snapshots : RunBegins(snapshot)

ExportSpec == ExportInit /\ [][ExportNext]_exportVars

-----------------------------------------------------------------------------
\* "Completed files remain; no manifest published": a file under its final name
\* is whole, also after the process was killed; and where there is a manifest
\* there are all the files of the run that wrote it, and no others but the
\* temporaries that could not be removed.
ManifestMeansComplete ==
    LET photo(i) == Entry(Photos \o Filenames(files)[i])
        temporary(e) == e[Len(e)] = LowerOf(".part")
    IN
    /\ \A e \in DOMAIN tree : tree[e] = "torn" => temporary(e)
    /\ ManifestPath \in DOMAIN tree =>
         LET photos == {photo(i) : i \in DOMAIN files} IN
         /\ photos \subseteq DOMAIN tree
         /\ \A e \in DOMAIN tree \ {ManifestPath, Photos} : e \in photos \/ temporary(e)

\* The names of an export can be used on every file system: no two are equal up
\* to case, however the originals and the suffixes given to them interfere, and
\* none is empty, a path, a device, or ends in a dot or a space.  The exception
\* is a device name that is followed by spaces up to the length limit and by
\* something behind it: the check for devices comes before the shortening, while
\* docs/export-immich.md says "Windows device names are handled, and long names
\* are shortened."
BlanksToTheLimit(name) ==
    LET long == Cleaned(name)
    IN Len(long) > MaxTokens /\ \A k \in 2..MaxTokens : long[k] \in Blank

PortableNames ==
    LET names == Filenames(files) IN
    /\ \A i, j \in DOMAIN names : ToLower(names[i]) = ToLower(names[j]) => i = j
    /\ \A i \in DOMAIN names :
         /\ names[i] # <<>> /\ (IsDevice(names[i]) => BlanksToTheLimit(files[i]))
         /\ names[i][Len(names[i])] \notin Blank
         /\ \A k \in DOMAIN names[i] : names[i][k] \notin Separator \cup Unsafe

\* The photo before which another one has taken the name of its temporary file.
TempTaken ==
    LET names == Filenames(files) IN
    \E i, j \in DOMAIN files : i < j /\ Entry(names[i]) = Entry(names[j] \o <<".part">>)

\* docs/export-immich.md names what makes an export fail: credentials, objects
\* that changed or are unavailable, reading and writing.  Names are no reason,
\* for collisions receive suffixes; with the one exception of "a.jpg.part"
\* uploaded before "a.jpg", which no suffix is given.
FailsOnlyInTrouble == exportAt = "failed" => trouble \/ TempTaken

=============================================================================
