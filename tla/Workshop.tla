------------------------------- MODULE Workshop -------------------------------
(***************************************************************************)
(* The Workshop library: a card for each map, with a preview that is       *)
(* Steam's, was cached from Steam, or was uploaded.  A card is saved whole *)
(* by whoever has fetched it; previews are files <id>.<suffix> of one      *)
(* directory, and the panel serves whichever it finds.                     *)
(*                                                                         *)
(* Handlers await Steam's answers, the chunks of a preview and the body of *)
(* an upload; between two awaits a handler is alone, though it may stop    *)
(* between two of its calls.  A stream writes into the file it opened,     *)
(* even when that is no longer the one at its path.                        *)
(***************************************************************************)
EXTENDS FiniteSets

CONSTANTS
    Maps,       \* published file ids
    Suffixes,   \* image types
    Procs,      \* requests
    None,       \* no row, no file, no map
    Faults      \* what else may happen, a subset of FaultKinds

\* "broken": a stream ends early; "oversize": it turns out too large; "cut": an
\* upload stops between two of its calls; "restart": the panel ends.
FaultKinds == {"broken", "oversize", "cut", "restart"}

ASSUME WorkshopAssumption ==
    /\ None \notin Maps \cup Suffixes \cup {"remote", "local", "partial", "cached", "uploaded"}
    /\ "removed" \notin Suffixes \cup {None}
    /\ Faults \subseteq FaultKinds

VARIABLES
    rows,       \* preview_url of a card: remote (or none), or the panel's media
    media,      \* media[m][s]: the file <m>.<s> of the media directory
    steam,      \* _metadata_status
    h,          \* the request of each process
    kept        \* history: type of an upload nobody has touched since, or
                \* that the last preview of the map was removed

vars == <<rows, media, steam, h, kept>>

Idle == [at |-> "idle"]
Requests ==
    {Idle}
        \cup [at : {"details"}, map : Maps, cache : BOOLEAN]
        \cup [at : {"headers", "body"}, map : Maps]
        \cup [at : {"stream"}, map : Maps, suffix : Suffixes, linked : BOOLEAN]
        \cup [at : {"children"}]
        \cup [at : {"child"}, map : Maps, rest : SUBSET Maps]

\* A stream that is linked has the file at its path open.
Writing(w, m, s) ==
    /\ h[w].at = "stream"
    /\ h[w].map = m
    /\ h[w].suffix = s
    /\ h[w].linked

TypeOK ==
    /\ rows \in [Maps -> {"remote", "local", None}]
    /\ media \in [Maps -> [Suffixes -> {"partial", "cached", "uploaded", None}]]
    /\ steam \in {"unknown", "available", "unavailable"}
    /\ h \in [Procs -> Requests]
    /\ kept \in [Maps -> Suffixes \cup {None, "removed"}]
    /\ \A w \in Procs, m \in Maps, s \in Suffixes : Writing(w, m, s) => media[m][s] # None
    /\ \A m \in Maps, s \in Suffixes : media[m][s] = "uploaded" => rows[m] # None

Init ==
    /\ rows = [m \in Maps |-> None]
    /\ media = [m \in Maps |-> [s \in Suffixes |-> None]]
    /\ steam = "unknown"
    /\ h = [w \in Procs |-> Idle]
    /\ kept = [m \in Maps |-> None]

Set(w, request) == h' = [h EXCEPT ![w] = request]

-----------------------------------------------------------------------------
\* add_map.

AddMap(w, m, cache) ==
    /\ h[w].at = "idle"
    /\ Set(w, [at |-> "details", map |-> m, cache |-> cache])
    /\ UNCHANGED <<rows, media, steam, kept>>

\* Steam describes the map, or the request does; without a title it is refused.
Described(w) ==
    /\ h[w].at = "details"
    /\ steam' \in {"available", "unavailable"}
    /\ UNCHANGED <<media, kept>>
    /\ \/ /\ steam' = "unavailable"
          /\ Set(w, Idle)
          /\ UNCHANGED rows
       \/ /\ h[w].cache
          /\ Set(w, [at |-> "headers", map |-> h[w].map])
          /\ UNCHANGED rows
       \/ /\ rows' = [rows EXCEPT ![h[w].map] = "remote"]
          /\ Set(w, Idle)

\* The preview cannot be had, is no image, or redirects too often.
NoPreview(w) ==
    /\ h[w].at = "headers"
    /\ Set(w, Idle)
    /\ UNCHANGED <<rows, media, steam, kept>>

\* The file is opened, emptied if it is there.
Open(w) ==
    /\ h[w].at = "headers"
    /\ \E s \in Suffixes :
        /\ media' = [media EXCEPT ![h[w].map][s] = "partial"]
        /\ Set(w, [at |-> "stream", map |-> h[w].map, suffix |-> s, linked |-> TRUE])
    /\ kept' = [kept EXCEPT ![h[w].map] = None]
    /\ UNCHANGED <<rows, steam>>

Written(w, file) ==
    media' = IF h[w].linked
             THEN [media EXCEPT ![h[w].map][h[w].suffix] = file]
             ELSE media

Chunk(w) ==
    /\ h[w].at = "stream"
    /\ Written(w, "partial")
    /\ UNCHANGED <<rows, steam, h, kept>>

\* The stream ends, and the card is saved as it was fetched.
Cached(w) ==
    /\ h[w].at = "stream"
    /\ Written(w, "cached")
    /\ rows' = [rows EXCEPT ![h[w].map] = "local"]
    /\ Set(w, Idle)
    /\ UNCHANGED <<steam, kept>>

\* The stream breaks; what it has written stays.
Broken(w) ==
    /\ "broken" \in Faults
    /\ h[w].at = "stream"
    /\ Set(w, Idle)
    /\ UNCHANGED <<rows, media, steam, kept>>

\* Every file of the set at a path of m is unlinked: streams go on without it.
Unlink(m, suffixes, v, request) ==
    h' = [w \in Procs |->
        IF w = v THEN request
        ELSE IF h[w].at = "stream" /\ h[w].map = m /\ h[w].suffix \in suffixes
        THEN [h[w] EXCEPT !.linked = FALSE]
        ELSE h[w]]

Bare(m) == \A s \in Suffixes : media'[m][s] = None

\* Files of m were removed, or may have been.
Touched(m) ==
    kept' = [kept EXCEPT ![m] = IF media'[m] = media[m] THEN kept[m]
                                ELSE IF Bare(m) THEN "removed"
                                ELSE None]

\* A preview that is too large is removed by its name, whoever wrote what
\* the name stands for by now.
Oversize(w) ==
    /\ "oversize" \in Faults
    /\ h[w].at = "stream"
    /\ media' = [media EXCEPT ![h[w].map][h[w].suffix] = None]
    /\ Unlink(h[w].map, {h[w].suffix}, w, Idle)
    /\ Touched(h[w].map)
    /\ UNCHANGED <<rows, steam>>

-----------------------------------------------------------------------------
\* upload_media.

Upload(w, m) ==
    /\ h[w].at = "idle"
    /\ Set(w, [at |-> "body", map |-> m])
    /\ UNCHANGED <<rows, media, steam, kept>>

\* Too large, no image, broken off, or no such card.
UploadRefused(w) ==
    /\ h[w].at = "body"
    /\ Set(w, Idle)
    /\ UNCHANGED <<rows, media, steam, kept>>

\* Mutants: the file is written over; it is removed with the ones before it.
ReplaceInPlace(w, m, s) ==
    /\ media' = [media EXCEPT ![m] = [t \in Suffixes |-> IF t = s THEN "uploaded" ELSE None]]
    /\ Unlink(m, Suffixes \ {s}, w, Idle)
ReplaceFirst(w, m, s) ==
    /\ media' = [media EXCEPT ![m] = [t \in Suffixes |-> None]]
    /\ Unlink(m, Suffixes, w, Idle)

\* The previews of the map are unlinked, of whatever type, and the new one is
\* written into a file of its own.
Replace(w, m, s) ==
    /\ media' = [media EXCEPT ![m] = [t \in Suffixes |-> IF t = s THEN "uploaded" ELSE None]]
    /\ Unlink(m, Suffixes, w, Idle)

\* Mutant: the card is looked for when the file is there.
UploadedAnyway(w) ==
    /\ h[w].at = "body"
    /\ \E s \in Suffixes :
        /\ Replace(w, h[w].map, s)
        /\ kept' = [kept EXCEPT ![h[w].map] = s]
    /\ rows' = IF rows[h[w].map] = None THEN rows ELSE [rows EXCEPT ![h[w].map] = "local"]
    /\ UNCHANGED steam

Uploaded(w) ==
    /\ h[w].at = "body"
    /\ rows[h[w].map] # None
    /\ \E s \in Suffixes :
        /\ Replace(w, h[w].map, s)
        /\ kept' = [kept EXCEPT ![h[w].map] = s]
    /\ rows' = [rows EXCEPT ![h[w].map] = "local"]
    /\ UNCHANGED steam

\* A file cannot be unlinked or written, or the panel ends: some of the
\* previews are gone, or all of them, and then the new one may be there in
\* part, or whole; the card is not saved.
UploadCut(w) ==
    /\ "cut" \in Faults
    /\ h[w].at = "body"
    /\ LET m == h[w].map IN
        /\ rows[m] # None
        /\ \/ \E gone \in SUBSET Suffixes :
                /\ media' = [media EXCEPT ![m] =
                        [t \in Suffixes |-> IF t \in gone THEN None ELSE media[m][t]]]
                /\ Unlink(m, gone, w, Idle)
           \/ \E s \in Suffixes, file \in {"partial", "uploaded"} :
                /\ media' = [media EXCEPT ![m] = [t \in Suffixes |-> IF t = s THEN file ELSE None]]
                /\ Unlink(m, Suffixes, w, Idle)
        /\ Touched(m)
    /\ UNCHANGED <<rows, steam>>

-----------------------------------------------------------------------------
\* import_collection.

Import(w) ==
    /\ h[w].at = "idle"
    /\ Set(w, [at |-> "children"])
    /\ UNCHANGED <<rows, media, steam, kept>>

\* The next child of a collection is fetched, or there is none left.
Fetch(w, left) ==
    \/ left = {} /\ Set(w, Idle)
    \/ \E m \in left : Set(w, [at |-> "child", map |-> m, rest |-> left \ {m}])

Children(w) ==
    /\ h[w].at = "children"
    /\ steam' = "available"
    /\ \E found \in SUBSET Maps : Fetch(w, found)
    /\ UNCHANGED <<rows, media, kept>>

\* Each child is saved when it is fetched.
Child(w) ==
    /\ h[w].at = "child"
    /\ rows' = [rows EXCEPT ![h[w].map] = "remote"]
    /\ Fetch(w, h[w].rest)
    /\ UNCHANGED <<media, steam, kept>>

\* What was imported before a failure stays.
ImportFails(w) ==
    /\ h[w].at \in {"children", "child"}
    /\ steam' = "unavailable"
    /\ Set(w, Idle)
    /\ UNCHANGED <<rows, media, kept>>

Step(w) ==
    \/ \E m \in Maps, cache \in BOOLEAN : AddMap(w, m, cache)
    \/ \E m \in Maps : Upload(w, m)
    \/ Described(w) \/ NoPreview(w) \/ Open(w)
    \/ Chunk(w) \/ Cached(w) \/ Broken(w) \/ Oversize(w)
    \/ UploadRefused(w) \/ Uploaded(w) \/ UploadCut(w)
    \/ Import(w) \/ Children(w) \/ Child(w) \/ ImportFails(w)

\* The panel ends and is started again; files and cards stay.
Crash ==
    /\ "restart" \in Faults
    /\ h' = [w \in Procs |-> Idle]
    /\ steam' = "unknown"
    /\ UNCHANGED <<rows, media, kept>>

Next ==
    \/ \E w \in Procs : Step(w)
    \/ Crash

Spec == Init /\ [][Next]_vars

-----------------------------------------------------------------------------
\* A card that shows the panel's own preview has a file to show, whichever
\* requests were replaced, refused or broken off meanwhile.  Two steps leave it
\* without, until the next file is opened: a stream that turns out too large and
\* removes the last file by its name, and an upload that stops after it has
\* unlinked the files before.  A file written in part counts: the panel serves
\* it (save, _media_path).
Served ==
    \A m \in Maps :
        rows[m] = "local" /\ kept[m] # "removed" => \E s \in Suffixes : media[m][s] # None

\* An uploaded preview stays the only one, and whole, until somebody opens a
\* file to cache another, a stream that is too large removes the file of its
\* very name, or another upload stops half way: a stream that was under way
\* does not write into it, however it ends (_save_uploaded_preview,
\* _cache_preview).
UploadKept ==
    \A m \in Maps : kept[m] \in Suffixes =>
        media[m] = [s \in Suffixes |-> IF s = kept[m] THEN "uploaded" ELSE None]

-----------------------------------------------------------------------------
\* The inductive invariant of WorkshopProofs: a stream has a file, as a card
\* has, and none writes into what an upload has put there.

Shown(m) == rows[m] = "local" \/ \E w \in Procs : h[w].at = "stream" /\ h[w].map = m

Stored ==
    \A m \in Maps :
        Shown(m) /\ kept[m] # "removed" => \E s \in Suffixes : media[m][s] # None

Unwritten ==
    \A m \in Maps : kept[m] \in Suffixes =>
        \A w \in Procs, s \in Suffixes : ~Writing(w, m, s)

PreviewInv == TypeOK /\ UploadKept /\ Stored /\ Unwritten
=============================================================================
