---------------------------- MODULE WorkshopProofs ----------------------------
(***************************************************************************)
(* Types, and what becomes of the previews the panel serves, for any       *)
(* number of maps, image types and requests, and under every fault.        *)
(***************************************************************************)
EXTENDS Workshop, TLAPS

\* What a request holds at each of its awaits.
LEMMA RequestFacts ==
    ASSUME TypeOK, NEW w \in Procs
    PROVE  /\ h[w].at = "details" => h[w].map \in Maps
           /\ h[w].at \in {"headers", "body"} => h[w].map \in Maps
           /\ h[w].at = "stream" => /\ h[w].map \in Maps /\ h[w].suffix \in Suffixes
                                    /\ h[w].linked \in BOOLEAN
           /\ h[w].at = "child" => h[w].map \in Maps /\ h[w].rest \subseteq Maps
  <1>1. h[w] \in Requests
    BY DEF TypeOK
  <1>2. QED
    BY <1>1 DEF Requests, Idle

\* A request that is set is a request, and no stream but the one it is.
LEMMA SetFacts ==
    ASSUME TypeOK, NEW w \in Procs, NEW request \in Requests, Set(w, request)
    PROVE  /\ h' \in [Procs -> Requests]
           /\ h'[w] = request
           /\ \A v \in Procs \ {w} : h'[v] = h[v]
  BY DEF TypeOK, Set

\* Streams whose file is unlinked go on as streams that are not linked.
LEMMA UnlinkFacts ==
    ASSUME TypeOK, NEW m, NEW suffixes, NEW w \in Procs, Unlink(m, suffixes, w, Idle)
    PROVE  /\ h' \in [Procs -> Requests]
           /\ h'[w] = Idle
           /\ \A v \in Procs \ {w} :
                 /\ h'[v].at = h[v].at
                 /\ h[v].at = "stream" => /\ h'[v].map = h[v].map
                                          /\ h'[v].suffix = h[v].suffix
                                          /\ h'[v].linked => h[v].linked
                 /\ h[v].at = "stream" /\ h[v].map = m /\ h[v].suffix \in suffixes
                        => ~h'[v].linked
  <1>1. /\ \A v \in Procs : h'[v] = IF v = w THEN Idle
               ELSE IF h[v].at = "stream" /\ h[v].map = m /\ h[v].suffix \in suffixes
               THEN [h[v] EXCEPT !.linked = FALSE] ELSE h[v]
        /\ h' = [v \in Procs |-> h'[v]]
    BY DEF Unlink
  <1>2. ASSUME NEW v \in Procs, h[v].at = "stream"
        PROVE  /\ [h[v] EXCEPT !.linked = FALSE] \in Requests
               /\ [h[v] EXCEPT !.linked = FALSE].at = "stream"
               /\ [h[v] EXCEPT !.linked = FALSE].map = h[v].map
               /\ [h[v] EXCEPT !.linked = FALSE].suffix = h[v].suffix
               /\ ~[h[v] EXCEPT !.linked = FALSE].linked
    <2>1. h[v] \in [at : {"stream"}, map : Maps, suffix : Suffixes, linked : BOOLEAN]
      <3>1. h[v] \in Requests
        BY DEF TypeOK
      <3>2. QED
        BY <3>1, <1>2 DEF Requests, Idle
    <2>2. [h[v] EXCEPT !.linked = FALSE]
              \in [at : {"stream"}, map : Maps, suffix : Suffixes, linked : BOOLEAN]
      BY <2>1
    <2>3. [h[v] EXCEPT !.linked = FALSE] \in Requests
      BY <2>2 DEF Requests
    <2>4. QED
      BY <2>1, <2>2, <2>3
  <1>3. \A v \in Procs : h'[v] \in Requests
    <2>1. Idle \in Requests
      BY DEF Requests
    <2>2. QED
      BY <1>1, <1>2, <2>1 DEF TypeOK
  <1>4. QED
    BY <1>1, <1>2, <1>3

Media == [Maps -> [Suffixes -> {"partial", "cached", "uploaded", None}]]

\* What a step does to the previews, by what it does to streams.
LEMMA QuietStep ==
    ASSUME WorkshopAssumption, PreviewInv, NEW w \in Procs, NEW request \in Requests,
           Set(w, request), request.at # "stream",
           UNCHANGED <<media, kept>>,
           rows' \in [Maps -> {"remote", "local", None}],
           steam' \in {"unknown", "available", "unavailable"},
           \A m \in Maps : rows'[m] = "local" => Shown(m),
           \A m \in Maps : rows[m] # None => rows'[m] # None
    PROVE  PreviewInv'
  <1>1. /\ h' \in [Procs -> Requests]
        /\ h'[w].at # "stream"
        /\ \A v \in Procs \ {w} : h'[v] = h[v]
    BY SetFacts DEF PreviewInv
  <1>2. \A v \in Procs, m \in Maps, s \in Suffixes : Writing(v, m, s)' => Writing(v, m, s)
    BY <1>1 DEF Writing
  <1>3. \A m \in Maps : Shown(m)' => Shown(m)
    BY <1>1 DEF Shown
  <1>4. TypeOK'
    BY <1>1, <1>2 DEF PreviewInv, TypeOK
  <1>5. UploadKept'
    BY DEF PreviewInv, UploadKept
  <1>6. Stored'
    BY <1>3 DEF PreviewInv, Stored
  <1>7. Unwritten'
    BY <1>2 DEF PreviewInv, Unwritten
  <1>8. QED
    BY <1>4, <1>5, <1>6, <1>7 DEF PreviewInv

\* A stream writes into its file and goes on, or ends.
LEMMA WriteStep ==
    ASSUME WorkshopAssumption, PreviewInv, NEW w \in Procs, h[w].at = "stream",
           NEW file \in {"partial", "cached"}, Written(w, file),
           \/ UNCHANGED <<rows, h>>
           \/ Set(w, Idle) /\ rows' = [rows EXCEPT ![h[w].map] = "local"],
           UNCHANGED <<steam, kept>>
    PROVE  PreviewInv'
  <1> DEFINE map == h[w].map
             suffix == h[w].suffix
  <1>1. map \in Maps /\ suffix \in Suffixes /\ h[w].linked \in BOOLEAN
    BY RequestFacts DEF PreviewInv
  <1>2. Idle \in Requests /\ Idle.at # "stream"
    BY DEF Requests, Idle
  <1>3. /\ h' \in [Procs -> Requests]
        /\ \A v \in Procs : h'[v] = h[v] \/ h'[v].at # "stream"
        /\ rows' \in [Maps -> {"remote", "local", None}]
        /\ \A m \in Maps : rows'[m] = "local" => Shown(m)
        /\ \A m \in Maps : rows[m] # None => rows'[m] # None
    <2>1. CASE UNCHANGED <<rows, h>>
      BY <2>1 DEF PreviewInv, TypeOK, Shown
    <2>2. CASE Set(w, Idle) /\ rows' = [rows EXCEPT ![map] = "local"]
      BY <2>2, <1>1, <1>2, SetFacts DEF PreviewInv, TypeOK, Shown, WorkshopAssumption
    <2>3. QED
      BY <2>1, <2>2
  <1>4. \A v \in Procs, m \in Maps, s \in Suffixes : Writing(v, m, s)' => Writing(v, m, s)
    BY <1>3 DEF Writing
  <1>5. \A m \in Maps : Shown(m)' => Shown(m)
    BY <1>3 DEF Shown
  <1>6. /\ media' \in Media
        /\ \A m \in Maps, s \in Suffixes :
              media'[m][s] = IF h[w].linked /\ m = map /\ s = suffix THEN file ELSE media[m][s]
        /\ \A m \in Maps \ {map} : media'[m] = media[m]
        /\ ~h[w].linked => media' = media
    <2>1. media \in Media
      BY DEF PreviewInv, TypeOK, Media
    <2>2. CASE ~h[w].linked
      BY <2>1, <2>2 DEF Written
    <2>3. CASE h[w].linked
      BY <1>1, <2>1, <2>3 DEF Written, Media
    <2>4. QED
      BY <2>2, <2>3
  <1>7. file # None /\ file # "uploaded"
    BY DEF WorkshopAssumption
  <1>8. TypeOK'
    <2>1. TypeOK
      BY DEF PreviewInv
    <2> HIDE DEF map, suffix
    <2>2. \A v \in Procs, m \in Maps, s \in Suffixes : Writing(v, m, s)' => media'[m][s] # None
      BY <2>1, <1>4, <1>6, <1>7 DEF TypeOK
    <2>3. \A m \in Maps, s \in Suffixes : media'[m][s] = "uploaded" => rows'[m] # None
      BY <2>1, <1>3, <1>6, <1>7 DEF TypeOK
    <2>4. /\ rows' \in [Maps -> {"remote", "local", None}] /\ h' \in [Procs -> Requests]
          /\ media' \in Media /\ steam' = steam /\ kept' = kept
      BY <1>3, <1>6
    <2> QED BY <2>1, <2>2, <2>3, <2>4 DEF TypeOK, Media
  <1>9. UploadKept'
    <2>1. ASSUME NEW m \in Maps, kept[m] \in Suffixes
          PROVE  media'[m] = media[m]
      <3>1. CASE m = map /\ h[w].linked
        BY <2>1, <3>1, <1>1 DEF PreviewInv, Unwritten, Writing
      <3>2. CASE ~(m = map /\ h[w].linked)
        BY <3>2, <1>6
      <3>3. QED
        BY <3>1, <3>2
    <2>2. QED
      BY <2>1 DEF PreviewInv, UploadKept
  <1>10. Stored'
    BY <1>5, <1>6, <1>7 DEF PreviewInv, Stored
  <1>11. Unwritten'
    BY <1>4 DEF PreviewInv, Unwritten
  <1>12. QED
    BY <1>8, <1>9, <1>10, <1>11 DEF PreviewInv

\* A file is opened for a stream.
LEMMA OpenStep ==
    ASSUME WorkshopAssumption, PreviewInv, NEW w \in Procs, Open(w)
    PROVE  PreviewInv'
  <1> DEFINE map == h[w].map
  <1>1. map \in Maps
    BY RequestFacts DEF PreviewInv, Open
  <1>2. PICK suffix \in Suffixes :
            /\ media' = [media EXCEPT ![map][suffix] = "partial"]
            /\ Set(w, [at |-> "stream", map |-> map, suffix |-> suffix, linked |-> TRUE])
    BY DEF Open
  <1> DEFINE request == [at |-> "stream", map |-> map, suffix |-> suffix, linked |-> TRUE]
  <1>3. request \in Requests
    BY <1>1 DEF Requests
  <1>4. /\ h' \in [Procs -> Requests]
        /\ h'[w] = request
        /\ \A v \in Procs \ {w} : h'[v] = h[v]
    BY <1>2, <1>3, SetFacts DEF PreviewInv
  <1>5. /\ media' \in Media
        /\ \A m \in Maps, s \in Suffixes :
              media'[m][s] = IF m = map /\ s = suffix THEN "partial" ELSE media[m][s]
        /\ \A m \in Maps \ {map} : media'[m] = media[m]
    BY <1>1, <1>2 DEF PreviewInv, TypeOK, Media
  <1>6. /\ rows' = rows /\ steam' = steam
        /\ kept' \in [Maps -> Suffixes \cup {None, "removed"}]
        /\ kept'[map] = None
        /\ \A m \in Maps \ {map} : kept'[m] = kept[m]
    BY <1>1 DEF Open, PreviewInv, TypeOK
  <1>7. "partial" # None /\ None \notin Suffixes
    BY DEF WorkshopAssumption
  <1>8. ASSUME NEW v \in Procs, NEW m \in Maps, NEW s \in Suffixes, Writing(v, m, s)'
        PROVE  (m = map /\ s = suffix) \/ Writing(v, m, s)
    BY <1>8, <1>4 DEF Writing
  <1>9. TypeOK'
    BY <1>4, <1>5, <1>6, <1>7, <1>8 DEF PreviewInv, TypeOK, Media
  <1>10. UploadKept'
    BY <1>5, <1>6, <1>7 DEF PreviewInv, UploadKept
  <1>11. Stored'
    BY <1>4, <1>5, <1>6, <1>7 DEF PreviewInv, Stored, Shown
  <1>12. Unwritten'
    BY <1>6, <1>7, <1>8 DEF PreviewInv, Unwritten
  <1>13. QED
    BY <1>9, <1>10, <1>11, <1>12 DEF PreviewInv

\* What is left of the history when files of a map were removed.
LEMMA TouchedFacts ==
    ASSUME TypeOK, NEW m \in Maps, Touched(m)
    PROVE  /\ kept' \in [Maps -> Suffixes \cup {None, "removed"}]
           /\ \A n \in Maps \ {m} : kept'[n] = kept[n]
           /\ \/ media'[m] = media[m] /\ kept'[m] = kept[m]
              \/ Bare(m) /\ kept'[m] = "removed"
              \/ ~Bare(m) /\ kept'[m] = None
  BY DEF TypeOK, Touched

\* Files of one map change, none is written that a stream has open, and what
\* the history says of the map is what is there.
LEMMA FilesStep ==
    ASSUME WorkshopAssumption, PreviewInv, NEW map \in Maps,
           media' \in Media,
           \A m \in Maps \ {map} : media'[m] = media[m],
           \A s \in Suffixes : media'[map][s] = "uploaded" => rows[map] # None,
           h' \in [Procs -> Requests],
           \A v \in Procs, m \in Maps, s \in Suffixes :
               Writing(v, m, s)' => Writing(v, m, s) /\ (m = map => media'[m][s] = media[m][s]),
           \A m \in Maps : Shown(m)' => Shown(m),
           Touched(map), UNCHANGED <<rows, steam>>
    PROVE  PreviewInv'
  <1>1. /\ kept' \in [Maps -> Suffixes \cup {None, "removed"}]
        /\ \A n \in Maps \ {map} : kept'[n] = kept[n]
        /\ \/ media'[map] = media[map] /\ kept'[map] = kept[map]
           \/ Bare(map) /\ kept'[map] = "removed"
           \/ ~Bare(map) /\ kept'[map] = None
    BY TouchedFacts DEF PreviewInv
  <1>2. None \notin Suffixes /\ "removed" \notin Suffixes
    BY DEF WorkshopAssumption
  <1>3. TypeOK'
    <2>1. /\ rows' \in [Maps -> {"remote", "local", None}]
          /\ steam' \in {"unknown", "available", "unavailable"}
          /\ media' \in [Maps -> [Suffixes -> {"partial", "cached", "uploaded", None}]]
      BY DEF PreviewInv, TypeOK, Media
    <2>2. ASSUME NEW v \in Procs, NEW m \in Maps, NEW s \in Suffixes, Writing(v, m, s)'
          PROVE  media'[m][s] # None
      <3>1. Writing(v, m, s) /\ media'[m][s] = media[m][s]
        BY <2>2
      <3>2. QED
        BY <3>1 DEF PreviewInv, TypeOK
    <2>3. ASSUME NEW m \in Maps, NEW s \in Suffixes, media'[m][s] = "uploaded"
          PROVE  rows'[m] # None
      BY <2>3 DEF PreviewInv, TypeOK
    <2>4. QED
      BY <1>1, <2>1, <2>2, <2>3 DEF TypeOK
  <1>4. UploadKept'
    BY <1>1, <1>2 DEF PreviewInv, UploadKept
  <1>5. Stored'
    BY <1>1 DEF PreviewInv, Stored, Bare
  <1>6. Unwritten'
    BY <1>1, <1>2 DEF PreviewInv, Unwritten
  <1>7. QED
    BY <1>3, <1>4, <1>5, <1>6 DEF PreviewInv

\* A file is removed by its name.
LEMMA OversizeStep ==
    ASSUME WorkshopAssumption, PreviewInv, NEW w \in Procs, Oversize(w)
    PROVE  PreviewInv'
  <1> DEFINE map == h[w].map
             suffix == h[w].suffix
  <1>1. map \in Maps /\ suffix \in Suffixes
    BY RequestFacts DEF PreviewInv, Oversize
  <1>2. Idle \in Requests /\ Idle.at # "stream"
    BY DEF Requests, Idle
  <1>3. /\ h' \in [Procs -> Requests]
        /\ h'[w] = Idle
        /\ \A v \in Procs \ {w} :
              /\ h'[v].at = h[v].at
              /\ h[v].at = "stream" => /\ h'[v].map = h[v].map
                                       /\ h'[v].suffix = h[v].suffix
                                       /\ h'[v].linked => h[v].linked
              /\ h[v].at = "stream" /\ h[v].map = map /\ h[v].suffix \in {suffix}
                     => ~h'[v].linked
    <2>1. TypeOK /\ Unlink(map, {suffix}, w, Idle)
      BY <1>1 DEF Oversize, PreviewInv
    <2>2. QED
      BY <1>1, <1>2, <2>1, UnlinkFacts
  <1>4. /\ media' \in Media
        /\ \A m \in Maps, s \in Suffixes :
              media'[m][s] = IF m = map /\ s = suffix THEN None ELSE media[m][s]
        /\ \A m \in Maps \ {map} : media'[m] = media[m]
    BY <1>1 DEF Oversize, PreviewInv, TypeOK, Media
  <1>5. \A v \in Procs, m \in Maps, s \in Suffixes :
            Writing(v, m, s)' => Writing(v, m, s) /\ ~(m = map /\ s = suffix)
    BY <1>2, <1>3 DEF Writing
  <1>6. \A m \in Maps : Shown(m)' => Shown(m)
    BY <1>2, <1>3 DEF Shown, Oversize
  <1>7. \A s \in Suffixes : media'[map][s] = "uploaded" => rows[map] # None
    BY <1>1, <1>4 DEF PreviewInv, TypeOK, WorkshopAssumption
  <1>8. Touched(map) /\ UNCHANGED <<rows, steam>>
    BY DEF Oversize
  <1>9. QED
    BY <1>1, <1>3, <1>4, <1>5, <1>6, <1>7, <1>8, FilesStep

\* An upload that stops leaves some of the previews, or none and then perhaps
\* its own.
LEMMA CutStep ==
    ASSUME WorkshopAssumption, PreviewInv, NEW w \in Procs, UploadCut(w)
    PROVE  PreviewInv'
  <1> DEFINE map == h[w].map
  <1>1. map \in Maps /\ rows[map] # None
    BY RequestFacts DEF PreviewInv, UploadCut
  <1>2. Idle \in Requests /\ Idle.at # "stream"
    BY DEF Requests, Idle
  <1>3. Touched(map) /\ UNCHANGED <<rows, steam>>
    BY DEF UploadCut
  <1>4. ASSUME NEW gone \in SUBSET Suffixes, NEW files \in [Suffixes -> {"partial", "cached", "uploaded", None}],
               media' = [media EXCEPT ![map] = files],
               \A s \in Suffixes \ gone : files[s] = media[map][s],
               Unlink(map, gone, w, Idle)
        PROVE  PreviewInv'
    <2>1. /\ h' \in [Procs -> Requests]
          /\ h'[w] = Idle
          /\ \A v \in Procs \ {w} :
                /\ h'[v].at = h[v].at
                /\ h[v].at = "stream" => /\ h'[v].map = h[v].map
                                         /\ h'[v].suffix = h[v].suffix
                                         /\ h'[v].linked => h[v].linked
                /\ h[v].at = "stream" /\ h[v].map = map /\ h[v].suffix \in gone
                       => ~h'[v].linked
      <3>1. TypeOK
        BY DEF PreviewInv
      <3>2. QED
        BY <1>1, <1>2, <1>4, <3>1, UnlinkFacts
    <2>2. /\ media' \in Media
          /\ media'[map] = files
          /\ \A m \in Maps \ {map} : media'[m] = media[m]
      BY <1>1, <1>4 DEF PreviewInv, TypeOK, Media
    <2>3. \A v \in Procs, m \in Maps, s \in Suffixes :
              Writing(v, m, s)' => Writing(v, m, s) /\ ~(m = map /\ s \in gone)
      BY <1>2, <2>1 DEF Writing
    <2>4. \A m \in Maps : Shown(m)' => Shown(m)
      BY <1>2, <1>3, <2>1 DEF Shown
    <2>5. \A v \in Procs, m \in Maps, s \in Suffixes :
              Writing(v, m, s)' => Writing(v, m, s) /\ (m = map => media'[m][s] = media[m][s])
      BY <1>4, <2>2, <2>3
    <2>6. \A s \in Suffixes : media'[map][s] = "uploaded" => rows[map] # None
      BY <1>1
    <2>7. QED
      BY <1>1, <1>3, <2>1, <2>2, <2>4, <2>5, <2>6, FilesStep
  <1>5. ASSUME NEW gone \in SUBSET Suffixes,
               media' = [media EXCEPT ![map] =
                   [t \in Suffixes |-> IF t \in gone THEN None ELSE media[map][t]]],
               Unlink(map, gone, w, Idle)
        PROVE  PreviewInv'
    <2> DEFINE files == [t \in Suffixes |-> IF t \in gone THEN None ELSE media[map][t]]
    <2>1. /\ files \in [Suffixes -> {"partial", "cached", "uploaded", None}]
          /\ \A s \in Suffixes \ gone : files[s] = media[map][s]
      BY <1>1 DEF PreviewInv, TypeOK
    <2>2. QED
      BY <1>5, <2>1, <1>4
  <1>6. ASSUME NEW s \in Suffixes, NEW file \in {"partial", "uploaded"},
               media' = [media EXCEPT ![map] = [t \in Suffixes |-> IF t = s THEN file ELSE None]],
               Unlink(map, Suffixes, w, Idle)
        PROVE  PreviewInv'
    <2> DEFINE files == [t \in Suffixes |-> IF t = s THEN file ELSE None]
    <2>1. files \in [Suffixes -> {"partial", "cached", "uploaded", None}]
      OBVIOUS
    <2>2. QED
      BY <1>6, <2>1, <1>4
  <1>7. QED
    BY <1>5, <1>6 DEF UploadCut

\* An upload takes the place of every preview of its map.
LEMMA UploadedStep ==
    ASSUME WorkshopAssumption, PreviewInv, NEW w \in Procs, Uploaded(w)
    PROVE  PreviewInv'
  <1> DEFINE map == h[w].map
  <1>1. map \in Maps
    BY RequestFacts DEF PreviewInv, Uploaded
  <1>2. Idle \in Requests /\ Idle.at # "stream"
    BY DEF Requests, Idle
  <1>3. PICK suffix \in Suffixes :
            /\ Replace(w, map, suffix)
            /\ kept' = [kept EXCEPT ![map] = suffix]
    BY DEF Uploaded
  <1>4. /\ h' \in [Procs -> Requests]
        /\ h'[w] = Idle
        /\ \A v \in Procs \ {w} :
              /\ h'[v].at = h[v].at
              /\ h[v].at = "stream" => /\ h'[v].map = h[v].map
                                       /\ h'[v].suffix = h[v].suffix
                                       /\ h'[v].linked => h[v].linked
              /\ h[v].at = "stream" /\ h[v].map = map /\ h[v].suffix \in Suffixes
                     => ~h'[v].linked
    <2>1. TypeOK /\ Unlink(map, Suffixes, w, Idle)
      BY <1>3 DEF Replace, PreviewInv
    <2>2. QED
      BY <1>1, <1>2, <2>1, UnlinkFacts
  <1> DEFINE new == [t \in Suffixes |-> IF t = suffix THEN "uploaded" ELSE None]
  <1>5. /\ media' \in Media
        /\ media'[map] = new
        /\ \A m \in Maps \ {map} : media'[m] = media[m]
    BY <1>1, <1>3 DEF Replace, PreviewInv, TypeOK, Media
  <1>6. /\ kept' \in [Maps -> Suffixes \cup {None, "removed"}]
        /\ kept'[map] = suffix
        /\ \A m \in Maps \ {map} : kept'[m] = kept[m]
    BY <1>1, <1>3 DEF PreviewInv, TypeOK
  <1>7. /\ rows' \in [Maps -> {"remote", "local", None}] /\ steam' = steam
        /\ rows'[map] # None
        /\ \A m \in Maps \ {map} : rows'[m] = rows[m]
    BY <1>1 DEF Uploaded, PreviewInv, TypeOK, WorkshopAssumption
  <1>8. ASSUME NEW v \in Procs, NEW m \in Maps, NEW s \in Suffixes, Writing(v, m, s)'
        PROVE  Writing(v, m, s) /\ m # map
    BY <1>8, <1>2, <1>4 DEF Writing
  <1>9. \A m \in Maps \ {map} : Shown(m)' => Shown(m)
    BY <1>2, <1>4, <1>7 DEF Shown
  <1>10. new[suffix] = "uploaded" /\ "uploaded" # None
    BY DEF WorkshopAssumption
  <1>11. TypeOK'
    BY <1>4, <1>5, <1>6, <1>7, <1>8 DEF PreviewInv, TypeOK, Media
  <1>12. UploadKept'
    BY <1>5, <1>6 DEF PreviewInv, UploadKept
  <1>13. Stored'
    <2>1. ASSUME NEW m \in Maps, Shown(m)', kept'[m] # "removed"
          PROVE  \E s \in Suffixes : media'[m][s] # None
      <3>1. CASE m = map
        BY <3>1, <1>5, <1>10
      <3>2. CASE m # map
        BY <2>1, <3>2, <1>5, <1>6, <1>9 DEF PreviewInv, Stored
      <3>3. QED
        BY <3>1, <3>2
    <2>2. QED
      BY <2>1 DEF Stored
  <1>14. Unwritten'
    BY <1>6, <1>8 DEF PreviewInv, Unwritten
  <1>15. QED
    BY <1>11, <1>12, <1>13, <1>14 DEF PreviewInv

\* The next child of a collection, or the end of the import.
LEMMA FetchFacts ==
    ASSUME NEW w \in Procs, NEW left \in SUBSET Maps, Fetch(w, left)
    PROVE  \E request \in Requests : Set(w, request) /\ request.at # "stream"
  <1>1. CASE left = {} /\ Set(w, Idle)
    BY <1>1 DEF Requests, Idle
  <1>2. ASSUME NEW m \in left, Set(w, [at |-> "child", map |-> m, rest |-> left \ {m}])
        PROVE  \E request \in Requests : Set(w, request) /\ request.at # "stream"
    <2>1. [at |-> "child", map |-> m, rest |-> left \ {m}] \in Requests
      BY DEF Requests
    <2>2. QED
      BY <1>2, <2>1
  <1>3. QED
    BY <1>1, <1>2 DEF Fetch

\* A step that changes no preview and opens no file.
LEMMA OtherStep ==
    ASSUME WorkshopAssumption, PreviewInv, NEW w \in Procs,
           \/ \E m \in Maps, cache \in BOOLEAN : AddMap(w, m, cache)
           \/ \E m \in Maps : Upload(w, m)
           \/ Described(w) \/ NoPreview(w) \/ Broken(w) \/ UploadRefused(w)
           \/ Import(w) \/ Children(w) \/ Child(w) \/ ImportFails(w)
    PROVE  PreviewInv'
  <1>1. /\ Idle \in Requests /\ Idle.at # "stream"
        /\ [at |-> "children"] \in Requests
        /\ \A m \in Maps, c \in BOOLEAN : [at |-> "details", map |-> m, cache |-> c] \in Requests
        /\ \A m \in Maps : /\ [at |-> "headers", map |-> m] \in Requests
                           /\ [at |-> "body", map |-> m] \in Requests
    BY DEF Requests, Idle
  <1>2. UNCHANGED <<media, kept>>
    BY DEF AddMap, Upload, Described, NoPreview, Broken, UploadRefused, Import, Children,
           Child, ImportFails
  <1>3. /\ rows' \in [Maps -> {"remote", "local", None}]
        /\ \A m \in Maps : rows'[m] = "local" => Shown(m)
        /\ \A m \in Maps : rows[m] # None => rows'[m] # None
    <2>1. CASE rows' = rows
      BY <2>1 DEF PreviewInv, TypeOK, Shown
    <2>2. CASE h[w].at \in {"details", "child"} /\ rows' = [rows EXCEPT ![h[w].map] = "remote"]
      BY <2>2, RequestFacts DEF PreviewInv, TypeOK, Shown, WorkshopAssumption
    <2>3. QED
      BY <2>1, <2>2 DEF AddMap, Upload, Described, NoPreview, Broken, UploadRefused, Import,
                        Children, Child, ImportFails
  <1>4. steam' \in {"unknown", "available", "unavailable"}
    BY DEF PreviewInv, TypeOK, AddMap, Upload, Described, NoPreview, Broken, UploadRefused,
           Import, Children, Child, ImportFails
  <1>5. PICK request \in Requests : Set(w, request) /\ request.at # "stream"
    <2>1. CASE Children(w)
      BY <2>1, FetchFacts DEF Children
    <2>2. CASE Child(w)
      BY <2>2, FetchFacts, RequestFacts DEF Child, PreviewInv
    <2>3. CASE Described(w)
      BY <2>3, <1>1, RequestFacts DEF Described, PreviewInv
    <2>4. ASSUME NEW m \in Maps, NEW c \in BOOLEAN, AddMap(w, m, c)
          PROVE  \E r \in Requests : Set(w, r) /\ r.at # "stream"
      BY <2>4, <1>1 DEF AddMap
    <2>5. ASSUME NEW m \in Maps, Upload(w, m)
          PROVE  \E r \in Requests : Set(w, r) /\ r.at # "stream"
      BY <2>5, <1>1 DEF Upload
    <2>6. CASE NoPreview(w) \/ Broken(w) \/ UploadRefused(w) \/ Import(w) \/ ImportFails(w)
      BY <2>6, <1>1 DEF NoPreview, Broken, UploadRefused, Import, ImportFails
    <2>7. QED
      BY <2>1, <2>2, <2>3, <2>4, <2>5, <2>6
  <1>6. QED
    BY <1>2, <1>3, <1>4, <1>5, QuietStep

LEMMA PreviewStep ==
    ASSUME WorkshopAssumption, PreviewInv, [Next]_vars
    PROVE  PreviewInv'
  <1>1. ASSUME NEW w \in Procs, Step(w)
        PROVE  PreviewInv'
    <2>1. CASE Chunk(w)
      BY <2>1, WriteStep DEF Chunk
    <2>2. CASE Cached(w)
      BY <2>2, WriteStep DEF Cached
    <2>3. CASE Open(w) \/ Oversize(w) \/ Uploaded(w) \/ UploadCut(w)
      BY <2>3, OpenStep, OversizeStep, UploadedStep, CutStep
    <2>4. QED
      BY <1>1, <2>1, <2>2, <2>3, OtherStep DEF Step
  <1>2. CASE Crash
    <2>1. Idle \in Requests /\ Idle.at # "stream"
      BY DEF Requests, Idle
    <2>2. \A v \in Procs, m \in Maps, s \in Suffixes : ~Writing(v, m, s)'
      BY <1>2, <2>1 DEF Crash, Writing
    <2>3. \A m \in Maps : Shown(m)' => Shown(m)
      BY <1>2, <2>1 DEF Crash, Shown
    <2>4. QED
      BY <1>2, <2>1, <2>2, <2>3 DEF Crash, PreviewInv, TypeOK, UploadKept, Stored, Unwritten
  <1>3. CASE UNCHANGED vars
    BY <1>3 DEF vars, PreviewInv, TypeOK, UploadKept, Stored, Shown, Unwritten, Writing
  <1>4. QED
    BY <1>1, <1>2, <1>3 DEF Next

LEMMA InitPreviews == ASSUME WorkshopAssumption PROVE Init => PreviewInv
  <1>1. Idle \in Requests /\ Idle.at # "stream"
    BY DEF Requests, Idle
  <1>2. None \notin Suffixes \cup {"remote", "local"}
    BY DEF WorkshopAssumption
  <1>3. Init => TypeOK
    BY <1>1 DEF Init, TypeOK, Writing
  <1>4. Init => UploadKept /\ Stored /\ Unwritten
    BY <1>1, <1>2 DEF Init, UploadKept, Stored, Shown, Unwritten
  <1>5. QED
    BY <1>3, <1>4 DEF PreviewInv

THEOREM PreviewInvariant == ASSUME WorkshopAssumption PROVE Spec => []PreviewInv
  BY InitPreviews, PreviewStep, PTL DEF Spec

\* Every state has its type, a stream that is linked has a file, and an upload
\* a card.
THEOREM WorkshopTyped == ASSUME WorkshopAssumption PROVE Spec => []TypeOK
  <1>1. PreviewInv => TypeOK
    BY DEF PreviewInv
  <1>2. QED
    BY <1>1, PreviewInvariant, PTL

\* A card that shows the panel's own preview has a file to show, unless a
\* stream that was too large or an upload that stopped removed the last one and
\* none was opened since.
THEOREM PreviewsServed == ASSUME WorkshopAssumption PROVE Spec => []Served
  <1>1. PreviewInv => Served
    BY DEF PreviewInv, Stored, Shown, Served
  <1>2. QED
    BY <1>1, PreviewInvariant, PTL

\* An upload stays whole and the only one until a file is opened to cache
\* another, a stream that is too large removes its very name, or another upload
\* stops half way: the streams under way, wherever they end, and a restart of
\* the panel do not touch it.
THEOREM UploadsKept == ASSUME WorkshopAssumption PROVE Spec => []UploadKept
  <1>1. PreviewInv => UploadKept
    BY DEF PreviewInv
  <1>2. QED
    BY <1>1, PreviewInvariant, PTL
=============================================================================
