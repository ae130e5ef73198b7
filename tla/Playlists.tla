----------------------------- MODULE Playlists -----------------------------
(***************************************************************************)
(* What is done to upstream's playlists (stream.go:33-98, nos.go:150-238,  *)
(* cache.go:120-139, playlist.go:21-60, proxy.go:32-80).  A master is read *)
(* three times: rewriteMasterPlaylist offers its variants to a player,     *)
(* parseVariants and setMaster decide where the offered paths lead, and    *)
(* streamQualities and playlistEntries hand out the same paths on the home *)
(* page and in the M3U playlist.  The URIs of a media playlist are         *)
(* rewritten to paths of the app, which handleSegment and proxyUpstream    *)
(* turn into URLs again.                                                   *)
(*                                                                         *)
(* A line of a master is reduced to what the readers tell apart, a URI in  *)
(* it to the number of its line, and a URL to its host, the names its path *)
(* consists of and its query.  The machine has upstream write any master,  *)
(* line by line, or any URI into a media playlist.                         *)
(***************************************************************************)
EXTENDS Integers, Sequences, SequencesExt

CONSTANTS Resolutions, NoResolution,
          Bandwidths, \* of variants
          Hosts, Allowed, NoHost, \* hosts, and those of proxyAllowedHosts
          MaxLines    \* bound: the lines of a master

ASSUME PlaylistsAssumption ==
    /\ NoResolution \notin Resolutions /\ NoHost \notin Hosts
    /\ Bandwidths \subseteq Nat /\ MaxLines \in Nat
    /\ Allowed \subseteq Hosts

VARIABLES master, \* the lines of a master playlist
          listed  \* a URI in a media playlist, and the URL of the playlist

vars == <<master, listed>>

(* A line is a STREAM-INF tag, perhaps after blanks, an I-frame variant, the
   tag of a rendition with its URI, a URI, or of no interest. *)
Lines ==
    [tag : {"inf"}, res : Resolutions \cup {NoResolution}, bandwidth : Bandwidths,
     indented : BOOLEAN]
    \cup [tag : {"iframe", "rendition", "uri", "other"}]

IsUri(line) == line.tag = "uri"
Infs(lines) == {i \in DOMAIN lines : lines[i].tag = "inf"}

-----------------------------------------------------------------------------
(* Masters. *)

(* Faulty variant: the URI of a variant without a resolution is kept. *)
RewriteLineKeeping(lines, acc, i) ==
    LET kept == Append(acc.out, [line |-> i, path |-> NoResolution]) IN
    CASE lines[i].tag = "iframe" -> acc
      [] lines[i].tag = "inf" -> [out |-> kept, res |-> lines[i].res]
      [] lines[i].tag = "uri" -> [out |-> Append(acc.out, [line |-> i, path |-> acc.res]),
                                  res |-> NoResolution]
      [] OTHER -> [acc EXCEPT !.out = kept]

(* One line of rewriteMasterPlaylist: the lines written so far, each with the
   line it stands for and the resolution whose path has replaced it, and the
   resolution of the tag last seen. *)
RewriteLine(lines, acc, i) ==
    LET kept == Append(acc.out, [line |-> i, path |-> NoResolution]) IN
    CASE lines[i].tag = "iframe" -> acc
      [] lines[i].tag = "inf" ->
            [out |-> IF lines[i].res = NoResolution THEN acc.out ELSE kept, res |-> lines[i].res]
      [] lines[i].tag = "uri" ->
            IF acc.res = NoResolution THEN acc
            ELSE [out |-> Append(acc.out, [line |-> i, path |-> acc.res]), res |-> NoResolution]
      [] OTHER -> [acc EXCEPT !.out = kept]

RewriteMaster(lines) ==
    FoldLeftDomain(LAMBDA acc, i : RewriteLine(lines, acc, i),
                   [out |-> <<>>, res |-> NoResolution], lines).out

(* The line of the URI that follows line i, or 0. *)
NextUri(lines, i) == SelectInSubSeq(lines, i + 1, Len(lines), IsUri)

(* Faulty variant: the URI has to be on the line after the tag. *)
ParseAdjacent(lines) ==
    {i \in Infs(lines) : ~lines[i].indented /\ i < Len(lines) /\ IsUri(lines[i + 1])}

(* parseVariants: the tags it recognises and finds a URI for. *)
ParseVariants(lines) ==
    {i \in Infs(lines) : ~lines[i].indented /\ NextUri(lines, i) # 0}

(* The URIs setMaster may store for a resolution: of several variants one with
   the highest bandwidth, since they come sorted, though not stably. *)
Stored(lines, res) ==
    LET variants == {i \in ParseVariants(lines) : lines[i].res = res} IN
    {NextUri(lines, i) : i \in {i \in variants :
        \A j \in variants : lines[j].bandwidth <= lines[i].bandwidth}}

(* streamQualities and playlistEntries: the resolutions that are handed out
   (none: the path of the master is). *)
Channels(lines) == {lines[i].res : i \in ParseVariants(lines)} \ {NoResolution}

-----------------------------------------------------------------------------
(* Media playlists. *)

(* The names in a path: "escaped" has an escape like %3F in it, which means
   another URL once it is undone, and "colon" a colon. *)
Names == {"live", "plain", "escaped", "colon"}
Paths == {<<n>> : n \in Names} \cup {<<"live", n>> : n \in Names} \cup {<<"plain", n>> : n \in Names}
Queries == {"none", "token"}

Url(host, path, query) == [host |-> host, path |-> path, query |-> query]

(* What a playlist writes: an absolute URL, or a path from the root or from its
   own directory or one further up, with a dot before a name with a colon. *)
References ==
    [host : Hosts, from : {0}, path : Paths, query : Queries]
    \cup [host : {NoHost}, from : 0 .. 2, path : Paths, query : Queries]

Directory(url) == Front(url.path)

(* resolve; "from" counts the names of the base's directory that are kept. *)
Resolve(base, ref) ==
    IF ref.host # NoHost THEN Url(ref.host, ref.path, ref.query)
    ELSE LET dir == Directory(base)
             kept == IF ref.from < Len(dir) THEN ref.from ELSE Len(dir)
         IN  Url(base.host, SubSeq(dir, 1, kept) \o ref.path, ref.query)

(* Faulty variant: a directory of the same name on another host is taken for
   the playlist's own. *)
RewriteUriAnyHost(base, ref) ==
    LET url == Resolve(base, ref)
        dir == Directory(base)
    IN  IF IsStrictPrefix(dir, url.path)
          THEN [to |-> "segment", file |-> SubSeq(url.path, Len(dir) + 1, Len(url.path)),
                query |-> url.query]
          ELSE [to |-> "proxy", url |-> url]

(* rewriteMediaPlaylist: what is below the playlist's own directory is named by
   its file, anything else by its URL. *)
RewriteUri(base, ref) ==
    LET url == Resolve(base, ref)
        dir == Directory(base)
    IN  IF url.host = base.host /\ IsStrictPrefix(dir, url.path)
          THEN [to |-> "segment", file |-> SubSeq(url.path, Len(dir) + 1, Len(url.path)),
                query |-> url.query]
          ELSE [to |-> "proxy", url |-> url]

(* rewritePlaylist, for playlists that come through /proxy. *)
RewriteNestedUri(base, ref) == [to |-> "proxy", url |-> Resolve(base, ref)]

Forbidden == [is |-> "403"]
Garbled == [is |-> "garbled"]
Fetch(url) == IF url.host \in Allowed THEN [is |-> "fetched", url |-> url] ELSE Forbidden

(* handleSegment gets the file with its escapes undone and reads it as a
   reference again, in which a colon in the first name ends a scheme. *)
Requested(base, path) ==
    IF path.to = "proxy" THEN Fetch(path.url)
    ELSE IF Head(path.file) = "colon" THEN Forbidden
    ELSE IF Contains(path.file, "escaped") THEN Garbled
    ELSE Fetch(Url(base.host, Directory(base) \o path.file, path.query))

-----------------------------------------------------------------------------
Nothing == [base |-> Url(NoHost, <<>>, "none"), ref |-> NoHost]

Init == master = <<>> /\ listed = Nothing

WriteLine ==
    /\ listed = Nothing
    /\ Len(master) < MaxLines
    /\ \E line \in Lines : master' = Append(master, line)
    /\ UNCHANGED listed

ListUri ==
    /\ master = <<>> /\ listed = Nothing
    /\ \E host \in Hosts, dir \in {<<>>, <<"live">>, <<"live", "plain">>}, ref \in References :
        listed' = [base |-> Url(host, Append(dir, "index"), "token"), ref |-> ref]
    /\ UNCHANGED master

Next == WriteLine \/ ListUri

Spec == Init /\ [][Next]_vars

-----------------------------------------------------------------------------
(* Every tag has its URI, before the next tag. *)
WellFormed(lines) ==
    \A i \in Infs(lines) : NextUri(lines, i) # 0 /\ \A j \in Infs(lines) : ~(i < j /\ j < NextUri(lines, i))

(* A tag of the rewritten master is followed by the path of its resolution, and
   that leads to the very variant upstream lists there, unless other variants
   have the same resolution or the tag is indented; rewriting and parsing, two
   loops that read lines differently, agree otherwise. *)
OffersExplained ==
    LET out == RewriteMaster(master)
        IsPath(item) == IsUri(master[item.line])
    IN  WellFormed(master) => \A k \in DOMAIN out : LET i == out[k].line IN
            i \in Infs(master) =>
                LET next == SelectInSubSeq(out, k + 1, Len(out), IsPath) IN
                /\ next # 0
                /\ out[next].path = master[i].res
                /\ \/ Stored(master, master[i].res) = {out[next].line}
                   \/ master[i].indented
                   \/ \E j \in Infs(master) \ {i} : master[j].res = master[i].res

(* The home page and the M3U playlist hand out what the rewritten master offers,
   but for indented tags. *)
OneLineup ==
    LET out == RewriteMaster(master) IN
    WellFormed(master) =>
        Channels(master) = {master[out[k].line].res :
            k \in {k \in DOMAIN out : out[k].line \in {i \in Infs(master) : ~master[i].indented}}}

(* What a rewritten URI is answered with is what it stood for, or refused for its
   host, unless a name of the file does not survive being read again. *)
RoundTrip ==
    listed # Nothing =>
        LET base == listed.base
            path == RewriteUri(base, listed.ref)
            meant == Fetch(Resolve(base, listed.ref))
        IN  /\ Requested(base, RewriteNestedUri(base, listed.ref)) = meant
            /\ \/ Requested(base, path) = meant
               \/ path.to = "segment" /\ (Head(path.file) = "colon" \/ Contains(path.file, "escaped"))

(* What README.md:81 says: everything the playlist references is proxied through
   the app, so that no line with a URI of upstream's is passed on. *)
EverythingProxied ==
    \A k \in DOMAIN RewriteMaster(master) :
        LET item == RewriteMaster(master)[k] IN
        item.path = NoResolution => master[item.line].tag \notin {"uri", "iframe", "rendition"}
=============================================================================
