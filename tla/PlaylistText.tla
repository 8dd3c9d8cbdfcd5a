------------------------------ MODULE PlaylistText ------------------------------
(***************************************************************************)
(* What the scan reads in a playlist, in an HLS manifest and in an FTP     *)
(* listing (src/network_sources.cpp): lines in, entries out.  Pure.  A     *)
(* line is what its parser tells apart, a URL a host and path segments; a  *)
(* last segment "" is a trailing slash.                                    *)
(***************************************************************************)
LOCAL INSTANCE Integers
LOCAL INSTANCE Sequences
LOCAL INSTANCE SequencesExt

LOCAL UpTo(n, S) == UNION {[1..k -> S] : k \in 0..n}
LOCAL LatestOf(list, P(_)) == CHOOSE i \in DOMAIN list : P(list[i]) /\ \A j \in DOMAIN list : j > i => ~P(list[j])

-----------------------------------------------------------------------------
(* ParseM3u *)

\* A title that is missing leaves the one before it; a subtitle that is missing clears it.
M3uLine(s, line) ==
  CASE line.k = "inf" -> IF line.v = "" THEN s ELSE [s EXCEPT !.title = line.v]
    [] line.k = "sub" -> [s EXCEPT !.sub = line.v]
    [] line.k = "uri" ->
         [entries |-> Append(s.entries, [location |-> line.v, sub |-> s.sub,
                                         title |-> IF s.title = "" THEN line.v ELSE s.title]),
          title |-> "", sub |-> ""]
    [] OTHER -> s                                     \* blank lines and other tags

\* Directives after the last entry are applied to it.
ParseM3u(lines) ==
  LET s == FoldLeft(M3uLine, [entries |-> <<>>, title |-> "", sub |-> ""], lines)
      n == Len(s.entries)
      or(new, old) == IF new = "" THEN old ELSE new
  IN IF n = 0 THEN <<>>
     ELSE [s.entries EXCEPT ![n].title = or(s.title, @), ![n].sub = or(s.sub, @)]

M3uLines == [k : {"inf"}, v : {"", "A", "B"}] \cup [k : {"sub"}, v : {"", "S"}]
              \cup [k : {"uri"}, v : {"u", "w"}] \cup [k : {"tag"}, v : {""}]

\* The entries of a playlist are its locations, in order; each has the title given to it last
\* (its own name when it has none) and the subtitle named last, those between the location before
\* it and itself, and for the last location also those after it.
EntriesAreOwn ==
  \A lines \in UpTo(4, M3uLines) :
    LET at == SetToSortSeq({i \in DOMAIN lines : lines[i].k = "uri"}, <)
        entries == ParseM3u(lines)
        given(i, j, k) == SelectSeq(SubSeq(lines, i, j), LAMBDA l : l.k = k)
        title(ls, other) ==
          IF \E i \in DOMAIN ls : ls[i].v # "" THEN ls[LatestOf(ls, LAMBDA l : l.v # "")].v ELSE other
        sub(ls, other) == IF ls = <<>> \/ ls[Len(ls)].v = "" THEN other ELSE ls[Len(ls)].v
        from(n) == IF n = 1 THEN 1 ELSE at[n - 1] + 1
        own(n) == [location |-> lines[at[n]].v,
                   title |-> title(given(from(n), at[n], "inf"), lines[at[n]].v),
                   sub |-> sub(given(from(n), at[n], "sub"), "")]
        late(k) == given(at[Len(at)] + 1, Len(lines), k)
        expected(n) == IF n < Len(at) THEN own(n)
                       ELSE [own(n) EXCEPT !.title = title(late("inf"), @), !.sub = sub(late("sub"), @)]
    IN entries = [n \in 1..Len(at) |-> expected(n)]

-----------------------------------------------------------------------------
(* ParsePls *)

kMaxPlsIndex == 2

PlsLine(parsed, line) ==
  IF line.index \in DOMAIN parsed THEN [parsed EXCEPT ![line.index][line.key] = line.v] ELSE parsed

ParsePls(lines) ==
  LET parsed == FoldLeft(PlsLine, [i \in 1..kMaxPlsIndex |-> [file |-> "", title |-> ""]], lines)
      named(e) == [location |-> e.file, sub |-> "", title |-> IF e.title = "" THEN e.file ELSE e.title]
      kept == SelectSeq(parsed, LAMBDA e : e.file # "")
  IN [n \in DOMAIN kept |-> named(kept[n])]

PlsLines == [key : {"file"}, index : 0..kMaxPlsIndex + 1, v : {"", "u", "w"}]
              \cup [key : {"title"}, index : 1..kMaxPlsIndex, v : {"", "A"}]

\* Whatever the order of its lines, a .pls file gives one entry for every index in its range that
\* has a file, in the order of the indices, with its own title.
PlsIsOrdered ==
  \A lines \in UpTo(3, PlsLines) :
    LET of(i, key) == SelectSeq(lines, LAMBDA l : l.index = i /\ l.key = key)
        value(i, key) == IF of(i, key) = <<>> THEN "" ELSE of(i, key)[Len(of(i, key))].v
        at == SetToSortSeq({i \in 1..kMaxPlsIndex : value(i, "file") # ""}, <)
        entries == ParsePls(lines)
    IN /\ Len(entries) = Len(at)
       /\ \A n \in DOMAIN at :
            /\ entries[n].location = value(at[n], "file")
            /\ entries[n].title \in {value(at[n], "title"), value(at[n], "file")} \ {""}
            /\ value(at[n], "title") # "" => entries[n].title = value(at[n], "title")

-----------------------------------------------------------------------------
(* ResolveRelativeUrl *)

\* Segments of the base that the code keeps: all but the file name, none when the reference is
\* rooted.  It looks for slashes from the eighth character on, and so misses the first of an FTP
\* URL whose host is one letter long.
BaseDirectory(base, rooted) ==
  CASE base.path = <<>> -> <<>>
    [] base.short /\ (rooted \/ Len(base.path) = 1) -> <<base.path[1]>>
    [] rooted -> <<>>
    [] OTHER -> Front(base.path)

Step(segments, seg) ==
  CASE seg \in {"", "."} -> segments
    [] seg = ".." -> IF segments = <<>> THEN <<>> ELSE Front(segments)
    [] OTHER -> Append(segments, seg)

\* Segments are percent-encoded where they are not yet; here they are names.
ResolveRelativeUrl(base, ref) ==
  LET start == SelectSeq(BaseDirectory(base, ref.rooted), LAMBDA s : s # "")
  IN [path |-> FoldLeft(Step, start, ref.path), query |-> ref.query]

\* RFC 3986, 5.2: merge, then remove the dot segments (5.2.4).
Rfc3986(base, ref) ==
  LET dir == IF base.path = <<>> THEN <<>> ELSE Front(base.path)
      merged == IF ref.rooted THEN ref.path ELSE dir \o ref.path
      up(out) == IF out = <<>> THEN <<>> ELSE Front(out)
      step(out, seg) == CASE seg = "." -> out [] seg = ".." -> up(out) [] OTHER -> Append(out, seg)
  IN [path |-> FoldLeft(step, <<>>, merged), query |-> ref.query]

Bases == [path : UpTo(2, {"a", "b"}) \cup {Append(p, "") : p \in UpTo(2, {"a"})}, short : BOOLEAN]
References == [rooted : BOOLEAN, path : UpTo(3, {"c", "d", ".", "..", ""}), query : {"", "q"}]

\* A relative URL is resolved as RFC 3986 tells, with the query as it is written; left out are
\* references without a path, with empty segments or with a slash at their end, whose slash or
\* file name the code drops, and a base on a host of one letter where its first slash counts.
ReferencesResolve ==
  \A base \in Bases, ref \in References :
    /\ ref.path # <<>> /\ "" \notin Range(ref.path) /\ Last(ref.path) \notin {".", ".."}
    /\ base.short => ~ref.rooted /\ Len(base.path) # 1
    => ResolveRelativeUrl(base, ref) = Rfc3986(base, ref)

\* RewriteHlsManifestUrisToAbsolute: lines that are URIs; a URI inside a tag stays as it is.
RewriteHlsManifestUrisToAbsolute(base, lines) ==
  [i \in DOMAIN lines |->
     IF lines[i].k = "uri" THEN [k |-> "absolute", v |-> ResolveRelativeUrl(base, lines[i].v)] ELSE lines[i]]

\* Violated: "rewrites each URI to an absolute URL" (docs/Media-Library.md:193).
ManifestIsAbsolute(base, lines) ==
  \A i \in DOMAIN lines : RewriteHlsManifestUrisToAbsolute(base, lines)[i].k \notin {"uri", "tag with a uri"}

-----------------------------------------------------------------------------
(* ListRemoteDirectory.  A line is a name in one of three forms; a name has a *)
(* first character that matters ("d", "-") or not, and a number of words. *)

\* Two digits are tried before four, so a year of four digits is never read.
TryParseDosListLine(l) == l.form = "dos" /\ l.year = 2

Lead(l) ==
  CASE l.form = "unix" -> (CASE l.kind = "dir" -> "d" [] l.kind = "file" -> "-" [] OTHER -> "l")
    [] l.form = "bare" -> l.name.lead
    [] OTHER -> "digit"
Words(l) == l.name.words + (CASE l.form = "unix" -> 8 [] l.form = "dos" -> 3 [] OTHER -> 0)

\* ParseUnixListName: what follows eight words, or the line.
ParseUnixListName(l) == IF Words(l) > 8 THEN 8 ELSE 0

ClassifyRemoteDirectoryEntry(l) ==
  IF TryParseDosListLine(l) THEN [dropped |-> 3, directory |-> l.kind = "dir"]
  ELSE [dropped |-> IF Lead(l) \in {"d", "-"} /\ Words(l) > 1 THEN ParseUnixListName(l) ELSE 0,
        directory |-> Lead(l) = "d" \/ l.slash]

ListLines == [form : {"unix", "dos", "bare"}, kind : {"dir", "file", "link"}, year : {2, 4},
              slash : BOOLEAN, name : [lead : {"d", "-", "other"}, words : {1, 2, 9}]]
Misread(l) ==
  \/ l.form = "unix" /\ l.kind = "link"
  \/ l.form = "dos" /\ l.year = 4
  \/ l.form = "bare" /\ l.name.lead = "d"
  \/ l.form = "bare" /\ l.name.lead = "-" /\ l.name.words > 8

\* Of every line that is not among those the code misreads, the name is found whole, and a
\* detailed line tells folders from files; a bare name is a folder when it ends in a slash.
ListingIsRead ==
  \A l \in ListLines : ~Misread(l) /\ (l.slash => l.form = "bare") =>
    LET entry == ClassifyRemoteDirectoryEntry(l)
    IN /\ entry.dropped = Words(l) - l.name.words
       /\ entry.directory = (l.slash \/ (l.form # "bare" /\ l.kind = "dir"))

\* What the scan goes by is what the playlists and listings say.
EntriesAreRead == EntriesAreOwn /\ PlsIsOrdered /\ ReferencesResolve /\ ListingIsRead
=============================================================================
