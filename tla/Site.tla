--------------------------------- MODULE Site ---------------------------------
(***************************************************************************)
(* internal/server/server.go (buildLocationHandler) and                    *)
(* internal/modules/static/static.go: what becomes of a request once the   *)
(* router has its location.                                                *)
(*                                                                         *)
(* The routes of Router are the locations of a site, in their order.  Each *)
(* call to the file system is a step, and other processes may change the   *)
(* files between two of them, as a deployment does: by creating, removing  *)
(* or renaming over a file, never by writing into one, and by making and   *)
(* removing directories.                                                   *)
(*                                                                         *)
(* A path, a name and an entry of try_files are sequences of the router's  *)
(* bytes, of which Index stands for "index.html".  Dots are left out.      *)
(* A proxy's answer is Upstream's, and not told here.                      *)
(***************************************************************************)
EXTENDS Router, FiniteSets

CONSTANTS Index,   \* "index.html"
          Sites,   \* the lists of locations
          Trees,   \* what the document root may hold when a request comes
          Fresh,   \* from this version on are the files that are created meanwhile
          MaxChanges  \* bound on the changes that meet a request

None == 0      \* nothing has this name
Dir == -1      \* a directory has
Broken == -2   \* a file has the name of a directory on the way
               \* every other number is a version of a file's content

TryEntry == [code : BOOLEAN, before : Seq(Chars), uri : BOOLEAN, after : Seq(Chars)]

Location == [path : Seq(Chars), proxy : {"known", "unknown", "no"}, root : BOOLEAN,
             files : Seq(TryEntry), autoindex : BOOLEAN,
             other : {"rewrite", "return", "none"}, redirects : BOOLEAN]

\* What stands in a tree stands in a directory of it, if the tree tells of that.
Tree(t) == /\ \A m \in DOMAIN t : m \in Seq(Chars) /\ t[m] \in Nat \cup {Dir}
           /\ \A m, k \in DOMAIN t : Begins(m \o <<Slash>>, k) /\ t[k] # None => t[m] = Dir

ASSUME IndexAssumption == Index \in Chars \ {Slash}
ASSUME FreshAssumption == Fresh \in Nat \ {None} /\ MaxChanges \in Nat
ASSUME SitesAssumption == Sites \subseteq Seq(Location)
ASSUME TreesAssumption == \A t \in Trees : Tree(t) /\ t = [m \in DOMAIN t |-> t[m]]

VARIABLES site,    \* httpCfg.Locations
          tree,    \* what the names below loc.Root stand for
          met,     \* history: what they stood for since the entry of try_files
                   \* that is tried, or then the static handler, was begun
          changes, \* how many changes have met the request
          hpc,     \* where the handler is
          entry,   \* the loop variable i of try_files
          target,  \* r.URL.Path, or the path to open
          info,    \* the file that the last successful Stat found
          file,    \* the file that is open
          reply    \* what the client gets

handler == <<hpc, entry, target, info, file, reply>>
files == <<tree, met, changes>>
siteVars == <<vars, site, files, handler>>

\* What a client gets: the content of a file, or what the answer is.
Still(is) == [is |-> is, body |-> 0]
NoReply == Still("nothing")

SiteTypeOK ==
  /\ TypeOK
  /\ site \in Sites
  /\ \A m \in DOMAIN tree : tree[m] \in Int
  /\ \A k \in DOMAIN met : \A m \in DOMAIN met[k] : met[k][m] \in Int
  /\ changes \in 0 .. MaxChanges
  /\ hpc \in {"out", "try", "dir", "index", "next", "root", "stat", "open", "serve",
              "list", "done"}
  /\ entry \in Nat
  /\ target \in Seq(Chars)
  /\ info \in Nat /\ file \in Nat
  /\ reply.is \in {"nothing", "code", "file", "listing", "redirect", "404", "500", "broken"}

-----------------------------------------------------------------------------
\* filepath.Clean and filepath.Join(root, .), without the root: of the slashes
\* only those stay that end a part which another one follows.
Name(path) ==
  LET kept == {k \in 1 .. Len(path) :
                 path[k] = Slash => /\ k > 1 /\ path[k - 1] # Slash
                                    /\ \E l \in k .. Len(path) : path[l] # Slash}
      Nth(j) == CHOOSE k \in kept : Cardinality({l \in kept : l <= k}) = j
  IN  [j \in 1 .. Cardinality(kept) |-> path[Nth(j)]]

\* What os.Stat, os.Open and os.ReadDir find under a name.
Look(t, name) ==
  IF name = <<>> THEN Dir
  ELSE IF \E m \in DOMAIN t : t[m] > None /\ Len(m) < Len(name) /\ Begins(m \o <<Slash>>, name)
  THEN Broken
  ELSE IF name \in DOMAIN t THEN t[name] ELSE None

IsFile(what) == what > None

Loc == site[answer]

\* Which handler a location has: a proxy before files, files before a rewrite,
\* and that before a return; a proxy without its upstream is none, whatever else
\* the location has.
Kind(loc) == CASE loc.proxy = "known" -> "proxy"
               [] loc.proxy = "unknown" -> "none"
               [] loc.root /\ loc.files # <<>> -> "try"
               [] loc.root -> "root"
               [] OTHER -> loc.other

Files == {"try", "root"}

\* The part of the path behind the location's.
Uri(loc, path) ==
  IF Len(path) = Len(loc.path) THEN <<Slash>> ELSE SubSeq(path, Len(loc.path) + 1, Len(path))

\* strings.Replace(f, "$uri", uri, 1)
Candidate(loc, e, path) ==
  e.before \o (IF e.uri THEN Uri(loc, path) ELSE <<>>) \o e.after

SiteInit == /\ Init
            /\ site \in Sites
            /\ tree = <<>> /\ met = <<>> /\ changes = 0
            /\ hpc = "out" /\ entry = 0 /\ target = <<>>
            /\ info = 0 /\ file = 0 /\ reply = NoReply

-----------------------------------------------------------------------------
Step(from, to) == pc = "answered" /\ hpc = from /\ hpc' = to

Unmoved == UNCHANGED <<vars, site, files>>

\* The next thing is looked at, and the history of what is met begins anew.
Anew == met' = <<tree>> /\ UNCHANGED <<vars, site, tree, changes>>

Say(what) == reply' = Still(what) /\ UNCHANGED <<target, info, file>>

\* initRoutes: the next location of the list is registered.
AddLocation ==
  /\ Len(routes) < Len(site)
  /\ AddRoute(site[Len(routes) + 1].path)
  /\ UNCHANGED <<site, files, handler>>

\* A request comes once all are.
Ask == /\ Len(routes) = Len(site)
       /\ \E path \in Paths : Request(path)
       /\ UNCHANGED <<site, files, handler>>

Walk == (Descend \/ Grow \/ Register \/ Follow \/ Answer) /\ UNCHANGED <<site, files, handler>>

\* The handler of a location with files is entered; the files are what they are.
Enter ==
  /\ pc = "answered" /\ hpc = "out" /\ answer # 0
  /\ \/ Kind(Loc) = "try" /\ hpc' = "try" /\ entry' = 1 /\ UNCHANGED target
     \/ Kind(Loc) = "root" /\ hpc' = "root" /\ target' = Uri(Loc, arg) /\ UNCHANGED entry
  /\ \E t \in Trees : tree' = t /\ met' = <<t>>
  /\ UNCHANGED <<vars, site, changes, info, file, reply>>

\* What is answered without a look at a file.  A rewrite or a return whose code
\* is a redirect sends one, and a return without a code does; a rewrite with
\* another code changes the path and is not found; no handler is not found.
Answers(loc) ==
  CASE Kind(loc) = "none" -> "404"
    [] Kind(loc) = "rewrite" -> IF loc.redirects THEN "redirect" ELSE "404"
    [] Kind(loc) = "return" -> IF loc.redirects THEN "redirect" ELSE "code"

AnswerAtOnce ==
  /\ hpc = "out" /\ answer # 0 /\ Kind(Loc) \notin Files \cup {"proxy"}
  /\ Step("out", "done") /\ Say(Answers(Loc))
  /\ UNCHANGED entry /\ Unmoved

Entry == Loc.files[entry]
Wanted == Candidate(Loc, Entry, arg)

\* try_files: "=404" and the like.
TryCode ==
  /\ hpc = "try" /\ Entry.code /\ Step("try", "done") /\ Say("code")
  /\ UNCHANGED entry /\ Unmoved

\* try_files: the first Stat, for a file.
TryFile ==
  /\ hpc = "try" /\ ~Entry.code
  /\ IF IsFile(Look(tree, Name(Wanted)))
     THEN Step("try", "root") /\ target' = Wanted /\ Anew
     ELSE Step("try", "dir") /\ UNCHANGED target /\ Unmoved
  /\ UNCHANGED <<entry, info, file, reply>>

\* try_files: the second Stat of the same name, for a directory.
TryDir ==
  /\ hpc = "dir"
  /\ Step("dir", IF Look(tree, Name(Wanted)) = Dir THEN "index" ELSE "next")
  /\ UNCHANGED <<entry, target, info, file, reply>> /\ Unmoved

TryIndex_Unchecked ==
  /\ Step("index", "root") /\ target' = Wanted \o <<Slash, Index>> /\ Anew
  /\ UNCHANGED <<entry, info, file, reply>>

\* try_files: the index of the directory.
TryIndex ==
  /\ hpc = "index"
  /\ IF Look(tree, Name(Wanted \o <<Slash, Index>>)) \notin {None, Broken}
     THEN Step("index", "root") /\ target' = Wanted \o <<Slash, Index>> /\ Anew
     ELSE Step("index", "next") /\ UNCHANGED target /\ Unmoved
  /\ UNCHANGED <<entry, info, file, reply>>

Absolute(e) == e.before # <<>> /\ e.before[1] = Slash

\* try_files: the next entry, or what the last one stands for.
TryNext ==
  /\ hpc = "next"
  /\ IF entry < Len(Loc.files)
     THEN /\ Step("next", "try") /\ entry' = entry + 1 /\ Anew
          /\ UNCHANGED <<target, info, file, reply>>
     ELSE /\ Step("next", "done") /\ UNCHANGED entry /\ Unmoved
          /\ Say(IF Absolute(Entry) THEN "redirect" ELSE "404")

Root_AnyIndex ==
  /\ hpc = "root"
  /\ IF Name(target) = <<>> /\ Look(tree, <<Index>>) \notin {None, Broken}
     THEN Step("root", "open") /\ target' = <<Index>>
     ELSE Step("root", "stat") /\ UNCHANGED target
  /\ UNCHANGED <<entry, info, file, reply>> /\ Unmoved

\* static: the index of the document root itself; below it Clean has taken the
\* slash that would ask for one.
Root ==
  /\ hpc = "root"
  /\ IF Name(target) = <<>> /\ IsFile(Look(tree, <<Index>>))
     THEN Step("root", "open") /\ target' = <<Index>> /\ info' = Look(tree, <<Index>>)
     ELSE Step("root", "stat") /\ UNCHANGED <<target, info>>
  /\ UNCHANGED <<entry, file, reply>> /\ Unmoved

\* static: what the path stands for.
Stat ==
  LET what == Look(tree, Name(target))
  IN  /\ hpc = "stat"
      /\ \/ what = None /\ Step("stat", "done") /\ Say("404")
         \/ what = Broken /\ Step("stat", "done") /\ Say("500")
         \/ what = Dir /\ ~Loc.autoindex /\ Step("stat", "done") /\ Say("404")
         \/ what = Dir /\ Loc.autoindex /\ Step("stat", "list")
              /\ UNCHANGED <<target, info, file, reply>>
         \/ IsFile(what) /\ Step("stat", "open") /\ info' = what
              /\ UNCHANGED <<target, file, reply>>
      /\ UNCHANGED entry /\ Unmoved

\* serveFile: the file is opened.  A directory that has come in its place is
\* opened as well, and what becomes of that depends on the file system, which may
\* know no size of it, or a size without a content to read.
Open ==
  LET what == Look(tree, Name(target))
  IN  /\ hpc = "open"
      /\ \/ ~IsFile(what) /\ Step("open", "done") /\ Say("500")
         \/ what = Dir /\ Step("open", "done") /\ Say("broken")
         \/ IsFile(what) /\ Step("open", "serve") /\ file' = what
              /\ UNCHANGED <<target, info, reply>>
      /\ UNCHANGED entry /\ Unmoved

\* serveFile: ETag, length and content are those of the open file.
Serve ==
  /\ Step("serve", "done")
  /\ reply' = [is |-> "file", body |-> file]
  /\ UNCHANGED <<entry, target, info, file>> /\ Unmoved

\* serveDirectory
List ==
  /\ hpc = "list"
  /\ Step("list", "done")
  /\ Say(IF Look(tree, Name(target)) = Dir THEN "listing" ELSE "500")
  /\ UNCHANGED entry /\ Unmoved

\* The request is over; another one will find the files in any state.
Finish ==
  /\ Served
  /\ answer # 0 /\ Kind(Loc) # "proxy" => hpc = "done"
  /\ tree' = <<>> /\ met' = <<>> /\ changes' = 0
  /\ hpc' = "out" /\ entry' = 0 /\ target' = <<>> /\ info' = 0 /\ file' = 0
  /\ reply' = NoReply
  /\ UNCHANGED site

-----------------------------------------------------------------------------
\* Whether something may be made under a name: its directory is there.
Parented(name) ==
  \A m \in DOMAIN tree : Begins(m \o <<Slash>>, name) => tree[m] = Dir

Without(name) ==
  [m \in DOMAIN tree |-> IF m = name \/ Begins(name \o <<Slash>>, m) THEN None ELSE tree[m]]

\* Somebody creates or replaces a file, makes a directory, or removes a file or
\* a directory with what is in it.
Change ==
  /\ hpc \notin {"out", "done"}
  /\ changes < MaxChanges /\ changes' = changes + 1
  /\ \E name \in DOMAIN tree :
       \/ /\ tree[name] # Dir /\ Parented(name)
          /\ tree' = [tree EXCEPT ![name] = Fresh + changes]
       \/ tree[name] = None /\ Parented(name) /\ tree' = [tree EXCEPT ![name] = Dir]
       \/ tree[name] # None /\ tree' = Without(name)
  /\ met' = Append(met, tree')
  /\ UNCHANGED <<vars, site, handler>>

HandlerStep ==
  \/ AnswerAtOnce
  \/ TryCode \/ TryFile \/ TryDir \/ TryIndex \/ TryNext
  \/ Root \/ Stat \/ Open \/ Serve \/ List

SiteNext == AddLocation \/ Ask \/ Walk \/ Enter \/ HandlerStep \/ Finish \/ Change

SiteSpec == SiteInit /\ [][SiteNext]_siteVars

-----------------------------------------------------------------------------
\* What the static handler answers to a path while the files stand still at t, by
\* its own rule: of a directory below the root it never looks for the index.
StaticAnswer(loc, path, t) ==
  LET what == IF Name(path) = <<>> /\ IsFile(Look(t, <<Index>>)) THEN Look(t, <<Index>>)
              ELSE Look(t, Name(path))
  IN  CASE IsFile(what) -> [is |-> "file", body |-> what]
        [] what = Dir /\ loc.autoindex -> Still("listing")
        [] what = Broken -> Still("500")
        [] OTHER -> Still("404")

\* The entries of try_files that decide: a code, a file, a directory's index.
Decides(loc, e, path, t) ==
  \/ e.code
  \/ IsFile(Look(t, Name(Candidate(loc, e, path))))
  \/ /\ Look(t, Name(Candidate(loc, e, path))) = Dir
     /\ Look(t, Name(Candidate(loc, e, path) \o <<Slash, Index>>)) \notin {None, Broken}

InStatic == {"root", "stat", "open", "serve", "list"}

\* try_files passes an entry over only if there was a moment, while it looked at
\* the entry, at which nothing was there to be served, and gives the static
\* handler a path only at a moment at which that entry stood for something,
\* however often the files change between the two or three looks at one name
\* (server.go:112-127).
EntriesJudged ==
  answer # 0 /\ Kind(Loc) = "try" =>
    /\ hpc = "next" => \E k \in DOMAIN met : ~Decides(Loc, Entry, arg, met[k])
    /\ hpc \in InStatic => Decides(Loc, Entry, arg, met[1])

\* The path that the static handler was asked for.
Asked == IF Kind(Loc) = "root" THEN Uri(Loc, arg) ELSE target

\* What a location with files answers was right at a moment while it was looked
\* for: the static handler's answer at a moment since it was called
\* (static.go:26-114, with up to three looks), and that of try_files without it
\* (server.go:106-135), at a moment since the last entry was tried.  Only if the
\* static handler had found a file or a directory, and at a later moment that was
\* not there, may it fail instead.
AnswerExplained ==
  answer # 0 /\ Kind(Loc) \in Files /\ hpc = "done" =>
    LET Right(k) == StaticAnswer(Loc, Asked, met[k])
    IN  IF Kind(Loc) = "root" \/ target # <<>>
        THEN \/ \E k \in DOMAIN met : reply = Right(k)
             \/ /\ reply.is \in {"500", "broken"}
                /\ \E j, k \in DOMAIN met : /\ j < k /\ Right(j).is \in {"file", "listing"}
                                            /\ Right(k).is # Right(j).is
        ELSE \/ Entry.code /\ reply = Still("code")
             \/ /\ entry = Len(Loc.files)
                /\ reply = Still(IF Absolute(Entry) THEN "redirect" ELSE "404")
                /\ \E k \in DOMAIN met : ~Decides(Loc, Entry, arg, met[k])
=============================================================================
