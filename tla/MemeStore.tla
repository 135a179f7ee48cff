----------------------------- MODULE MemeStore -----------------------------
(***************************************************************************)
(* The meme service: MemeModule, the memes' tables in memory and their     *)
(* files on the disk (src/src/meme_module.cc), under the requests that     *)
(* MemeHandler serves on the worker threads                                *)
(* (src/src/handler/meme_handler.cc).                                      *)
(*                                                                         *)
(* The files are used through BoostFileSystem: its operations are atomic   *)
(* (the theorem Refinement of FileSystemProofs), so a file is read only    *)
(* while nobody writes it.  But a write that the end of the process cuts   *)
(* off leaves the file it has opened empty.                                *)
(*                                                                         *)
(* There is one MemeModule here: MemeFactory has what happens when two     *)
(* first requests construct two.  remove() is left out: no handler calls   *)
(* it.                                                                     *)
(***************************************************************************)
EXTENDS FiniteSets, Integers

CONSTANTS
  Thread,       \* the worker threads of the server
  Id,           \* the ids that occur: 1..n
  Body,         \* meme bodies that parse as JSON
  Malformed,    \* a body that does not, or a number that its type cannot hold
  Rating,       \* the ratings that comments give
  Unit,         \* numbers are counted in steps of 1/Unit, fine enough for:
  Float,        \* the numbers that a float can hold,
  Even,         \* those of them whose last bit is 0,
  TextUnit,     \* and the multiples of this, which to_string writes (six decimals)
  Garbage,      \* bound: what an uninitialized int may hold
  Null,         \* no file, no entry, no owner
  Torn,         \* a file that write_file has opened and not closed yet
  Empty,        \* a file that the end of the process left so
  MaxRequests,  \* bound: requests the server receives
  MaxSignals    \* bound: how often the process is interrupted

(* An entry of ratings_: how many ratings, and their mean. *)
RatingEntry == [count : Nat \ {0}, mean : Int]

ASSUME MemeAssumption ==
  /\ IsFiniteSet(Id) /\ Id = 1..Cardinality(Id)
  /\ Rating \subseteq Int /\ Garbage \subseteq Int
  /\ Unit \in Nat \ {0} /\ TextUnit \in Nat \ {0} /\ Unit % TextUnit = 0
  /\ Float \subseteq Int /\ Unit \in Float
  /\ {MaxRequests, MaxSignals} \subseteq Nat
  /\ Null # Torn /\ Null # Empty /\ Torn # Empty /\ Null \notin Thread
  /\ {Null, Torn, Empty} \cap (Body \cup Int) = {}
  /\ \A v \in {Null, Torn, Empty} : v \notin RatingEntry

VARIABLES
  loaded,         \* the MemeModule is constructed
  id_count,       \* id_count_
  view_counts,    \* view_counts_: Null where there is no entry
  ratings,        \* ratings_: count and mean, Null where there is no entry
  views_mutex,    \* the owner of views_mutex_
  ratings_mutex,  \* the owner of ratings_mutex_
  dirs,           \* on the disk: the memes that have a directory,
  content,        \*   the files "content",
  views,          \*   "views",
  rated,          \*   "ratings",
  comment_dirs,   \*   the directories "comments",
  comments,       \*   how many comments each holds,
  blank,          \*   and which hold an empty one
  pc, req, id,    \* a thread's position, request, and meme
  res,            \* its response
  mine,           \* the view count that its own view made
  requests,       \* how many requests have arrived
  signals,        \* how often the process was interrupted
  ended,          \* history: what ended the process last
  posted,         \* history: the memes whose POST was answered with 201
  offered,        \* history: the body whose POST made each directory
  stale,          \* history: the views and ratings files that were not written
                  \*   or not read when they should have been
  owed            \* history: what a GET in progress must find

memory == <<loaded, id_count, view_counts, ratings>>
locks == <<views_mutex, ratings_mutex>>
files == <<dirs, content, views, rated, comment_dirs, comments, blank>>
thread == <<pc, req, id, res, mine>>
history == <<requests, signals, ended, posted, offered, stale, owed>>
vars == <<memory, locks, files, thread, history>>

PC == {"idle", "create", "handle", "mkdir", "content", "content opened", "view", "views",
       "views opened", "read", "ratings", "ratings opened", "comment", "comment file",
       "comment opened"}

(* The targets and methods that MemeHandler tells apart: "list" stands for     *)
(* /all, /get_by_views and /get_by_rating, "other" for the forms and for what  *)
(* it answers with 404. A comment without an id has one that is no number.     *)
Requests ==
  [kind : {"post"}, id : {Null}, body : Body \cup {Malformed}, rating : {Null}]
  \cup [kind : {"get", "info"}, id : Id, body : {Null, Malformed}, rating : {Null}]
  \cup [kind : {"list"}, id : {Null}, body : {Null, Malformed}, rating : {Null}]
  \cup [kind : {"random", "other"}, id : {Null}, body : {Null}, rating : {Null}]
  \cup [kind : {"comment"}, id : Id \cup {Null}, body : {Null, Malformed}, rating : Rating]

(* What a thread without a request has for one. *)
NoRequest == [kind |-> "other", id |-> Null, body |-> Null, rating |-> Null]

MetaFile == {"views", "ratings"} \X Id

Code == {"ok", "created", "commented", "dropped", "refused", "missing", "bad request", "not found"}
Response ==
  [code : Code, content : Body \cup {Null}, id : Id \cup {Null}, views : Int, rating : Int]

TypeOK ==
  /\ loaded \in BOOLEAN
  /\ id_count \in Id \cup {0}
  /\ view_counts \in [Id -> Int \cup {Null}]
  /\ ratings \in [Id -> RatingEntry \cup {Null}]
  /\ views_mutex \in Thread \cup {Null}
  /\ ratings_mutex \in Thread \cup {Null}
  /\ dirs \subseteq Id
  /\ content \in [Id -> Body \cup {Null, Torn, Empty}]
  /\ views \in [Id -> Int \cup {Null, Torn, Empty}]
  /\ rated \in [Id -> RatingEntry \cup {Null, Torn, Empty}]
  /\ comment_dirs \subseteq dirs
  /\ comments \in [Id -> Nat]
  /\ blank \subseteq comment_dirs
  /\ pc \in [Thread -> PC]
  /\ req \in [Thread -> Requests]
  /\ id \in [Thread -> Id \cup {Null}]
  /\ res \in [Thread -> Response \cup {Null}]
  /\ mine \in [Thread -> Int \cup {Null}]
  /\ posted \in [Id -> Body \cup {Null}]
  /\ offered \in [Id -> Body \cup {Null}]
  /\ stale \subseteq MetaFile
  /\ owed \in [Thread -> BOOLEAN]

-----------------------------------------------------------------------------
(* Numbers. *)

(* a / b, rounded to the nearest integer; the even one of two. *)
Round(a, b) ==
  LET q == a \div b
      rest == 2 * (a % b)
  IN  IF rest < b \/ (rest = b /\ q % 2 = 0) THEN q ELSE q + 1

(* The float that is nearest to a / b; the even one of two. *)
Distance(m, n) == IF m < n THEN n - m ELSE m - n
Nearer(f, g, a, b) ==
  \/ Distance(b * f, a) < Distance(b * g, a)
  \/ Distance(b * f, a) = Distance(b * g, a) /\ (g \in Even => f \in Even)
nearest[q \in Int \X (Nat \ {0})] == CHOOSE f \in Float : \A g \in Float : Nearer(f, g, q[1], q[2])
float(a, b) == nearest[<<a, b>>]

(* What an int becomes where it meets a float, and the float operations. *)
of_int(n) == float(n * Unit, 1)
times(x, y) == float(x * y, Unit)
plus(x, y) == float(x + y, 1)
over(x, y) == float(x * Unit, y)

(* Mutant: divided by the old count. *)
new_rating_old_count(old, r) ==
  IF old = Null THEN [count |-> 1, mean |-> of_int(r)]
  ELSE [count |-> old.count + 1,
        mean |-> over(plus(times(old.mean, of_int(old.count)), of_int(r)), of_int(old.count))]

(* The mean rating: each operation of a float rounds, and so does an int. *)
new_rating(old, r) ==
  IF old = Null THEN [count |-> 1, mean |-> of_int(r)]
  ELSE [count |-> old.count + 1,
        mean |-> over(plus(times(old.mean, of_int(old.count)), of_int(r)), of_int(old.count + 1))]

(* The ratings file has the mean with the decimals that to_string keeps, and  *)
(* stof makes the nearest float of them.                                      *)
to_string(r) == [r EXCEPT !.mean = Round(@, TextUnit) * TextUnit]
stof(r) == [r EXCEPT !.mean = float(@, 1)]

-----------------------------------------------------------------------------
(* Control. *)

Goto(t, l) == pc' = [pc EXCEPT ![t] = l]

(* A response that shows no meme. *)
Message(c) == [code |-> c, content |-> Null, id |-> Null, views |-> -1, rating |-> -1]

Respond(t, r) ==
  /\ Goto(t, "idle")
  /\ res' = [res EXCEPT ![t] = r]
  /\ id' = [id EXCEPT ![t] = Null]
  /\ req' = [req EXCEPT ![t] = NoRequest]
  /\ UNCHANGED mine

(* A request arrives. A GET is owed a meme whose POST has been answered. *)
receive(t, r) ==
  /\ pc[t] = "idle"
  /\ requests < MaxRequests
  /\ requests' = requests + 1
  /\ Goto(t, "create")
  /\ req' = [req EXCEPT ![t] = r]
  /\ res' = [res EXCEPT ![t] = Null]
  /\ id' = [id EXCEPT ![t] = r.id]
  /\ mine' = [mine EXCEPT ![t] = Null]
  /\ owed' = [owed EXCEPT ![t] = r.kind = "get" /\ r.body = Null /\ posted[r.id] # Null]
  /\ UNCHANGED <<memory, locks, files, signals, ended, posted, offered, stale>>

(* The process ends: exit() in the signal handler, or an exception that leaves *)
(* a worker thread. A file that was being written is left empty.               *)
Left(f) == [i \in Id |-> IF f[i] = Torn THEN Empty ELSE f[i]]

Terminate(cause) ==
  /\ ended' = cause
  /\ loaded' = FALSE
  /\ id_count' = 0
  /\ view_counts' = [i \in Id |-> Null]
  /\ ratings' = [i \in Id |-> Null]
  /\ views_mutex' = Null /\ ratings_mutex' = Null
  /\ content' = Left(content) /\ views' = Left(views) /\ rated' = Left(rated)
  /\ blank' = blank \cup {i \in Id : \E t \in Thread : pc[t] = "comment opened" /\ id[t] = i}
  /\ pc' = [t \in Thread |-> "idle"]
  /\ id' = [t \in Thread |-> Null]
  /\ res' = [t \in Thread |-> Null]
  /\ mine' = [t \in Thread |-> Null]
  /\ owed' = [t \in Thread |-> FALSE]
  /\ req' = [t \in Thread |-> NoRequest]
  /\ UNCHANGED <<dirs, comment_dirs, comments, requests, posted, offered, stale>>

Exception == Terminate("exception") /\ UNCHANGED signals

(* SIGINT at any moment. *)
interrupt_handler ==
  /\ signals < MaxSignals
  /\ signals' = signals + 1
  /\ Terminate("signal")

-----------------------------------------------------------------------------
(* The constructor, called by the first request's create(). *)

(* It lists the directories whose status it can get, and takes the view       *)
(* counts and the ratings from the files of theirs that it can read. An empty *)
(* views file leaves view_count uninitialized.                                *)
load(t, listed, counted, scored) ==
  /\ loaded' = TRUE
  /\ id_count' = CHOOSE n \in listed \cup {0} : \A m \in listed : m <= n
  /\ \E view_count \in Garbage :
       view_counts' = [i \in Id |-> IF i \notin counted THEN Null
                                   ELSE IF views[i] = Empty THEN view_count ELSE views[i]]
  /\ ratings' = [i \in Id |-> IF i \in scored /\ rated[i] # Null THEN stof(rated[i]) ELSE Null]
  /\ stale' = ({"views"} \X {i \in dirs : i \notin counted \/ views[i] = Empty})
              \cup ({"ratings"} \X (dirs \ scored))
  /\ Goto(t, "handle")
  /\ UNCHANGED <<locks, files, req, id, res, mine, requests, signals, ended, posted, offered, owed>>

(* An empty ratings file makes stoi throw, and the handler around it catches  *)
(* filesystem_error only.                                                     *)
MemeModule(t) ==
  /\ pc[t] = "create" /\ ~loaded
  /\ \E listed \in SUBSET dirs : \E counted \in SUBSET listed, scored \in SUBSET listed :
       IF \E i \in scored : rated[i] = Empty THEN Exception
       ELSE load(t, listed, counted, scored)

(* Later requests find it constructed. *)
create_handler(t) ==
  /\ pc[t] = "create" /\ loaded
  /\ Goto(t, "handle")
  /\ UNCHANGED <<memory, locks, files, req, id, res, mine, history>>

-----------------------------------------------------------------------------
(* POST a meme. *)

At(t, l, k) == pc[t] = l /\ req[t].kind = k

(* The constructors Meme(body) and Comment(body) let the JSON parser throw,    *)
(* and nobody catches the out_of_range of stoi: in a target (check_format), or *)
(* in the id or the rating of a comment.                                       *)
parse_error(t) ==
  /\ pc[t] = "handle" /\ req[t].body = Malformed
  /\ Exception

(* generate_id, under id_mutex_. *)
generate_id(t) ==
  /\ At(t, "handle", "post") /\ req[t].body # Malformed
  /\ id_count + 1 \in Id
  /\ id_count' = id_count + 1
  /\ id' = [id EXCEPT ![t] = id_count + 1]
  /\ Goto(t, "mkdir")
  /\ UNCHANGED <<loaded, view_counts, ratings, locks, files, req, res, mine, history>>

(* An answer after which everything is as it was. *)
Answer(t, r) == Respond(t, r) /\ UNCHANGED <<memory, locks, files, history>>
Failed(t, code) == Answer(t, Message(code))

(* Mutant: create() goes on after a conflict. *)
create_directory_conflict(t) ==
  /\ pc[t] = "mkdir"
  /\ dirs' = dirs \cup {id[t]}
  /\ offered' = [offered EXCEPT ![id[t]] = req[t].body]
  /\ Goto(t, "content")
  /\ UNCHANGED <<memory, locks, content, views, rated, comment_dirs, comments, blank,
                 req, id, res, mine, requests, signals, ended, posted, stale, owed>>

(* An id that was given before is refused here: its directory exists. *)
create_directory(t) ==
  /\ pc[t] = "mkdir"
  /\ \/ /\ id[t] \notin dirs
        /\ dirs' = dirs \cup {id[t]}
        /\ offered' = [offered EXCEPT ![id[t]] = req[t].body]
        /\ Goto(t, "content")
        /\ UNCHANGED <<memory, locks, content, views, rated, comment_dirs, comments, blank,
                       req, id, res, mine, requests, signals, ended, posted, stale, owed>>
     \/ Failed(t, "refused")

write_content(t) ==
  /\ pc[t] = "content"
  /\ \/ /\ content' = [content EXCEPT ![id[t]] = Torn]
        /\ Goto(t, "content opened")
        /\ UNCHANGED <<memory, locks, dirs, views, rated, comment_dirs, comments, blank,
                       req, id, res, mine, history>>
     \/ Failed(t, "refused")

(* The content is written, and the POST is answered with 201. *)
meme_created(t) ==
  /\ pc[t] = "content opened"
  /\ content' = [content EXCEPT ![id[t]] = req[t].body]
  /\ posted' = [posted EXCEPT ![id[t]] = req[t].body]
  /\ Respond(t, Message("created"))
  /\ UNCHANGED <<memory, locks, dirs, views, rated, comment_dirs, comments, blank,
                 requests, signals, ended, offered, stale, owed>>

-----------------------------------------------------------------------------
(* GET a meme, by its id or at random. *)

random_id(t) ==
  /\ At(t, "handle", "random") /\ id[t] = Null
  /\ \/ id_count = 0 /\ Failed(t, "bad request")
     \/ \E i \in 1..id_count :
          /\ id' = [id EXCEPT ![t] = i]
          /\ UNCHANGED <<memory, locks, files, pc, req, res, mine, history>>

(* Mutant: ids are checked against id_count_ and not on the disk. *)
get_by_count(t) ==
  /\ pc[t] = "handle" /\ req[t].kind \in {"get", "random"}
  /\ id[t] # Null /\ req[t].body = Null
  /\ \/ /\ id[t] <= id_count
        /\ Goto(t, "view")
        /\ UNCHANGED <<memory, locks, files, req, id, res, mine, history>>
     \/ id[t] > id_count /\ Failed(t, "missing")

get(t) ==
  /\ pc[t] = "handle" /\ req[t].kind \in {"get", "random"}
  /\ id[t] # Null /\ req[t].body = Null
  /\ \/ /\ id[t] \in dirs
        /\ Goto(t, "view")
        /\ UNCHANGED <<memory, locks, files, req, id, res, mine, history>>
     \/ id[t] \notin dirs /\ Failed(t, "missing")

(* Mutant: views_mutex_ is taken without waiting for it. *)
increment_view_count_unlocked(t) ==
  /\ pc[t] = "view"
  /\ views_mutex' = t
  /\ LET view_count == IF view_counts[id[t]] = Null THEN 1 ELSE view_counts[id[t]] + 1
     IN /\ view_counts' = [view_counts EXCEPT ![id[t]] = view_count]
        /\ mine' = [mine EXCEPT ![t] = view_count]
  /\ Goto(t, "views")
  /\ UNCHANGED <<loaded, id_count, ratings, ratings_mutex, files, req, id, res, history>>

(* Mutant: the new count is written to the file and not to the table. *)
increment_view_count_file_only(t) ==
  /\ pc[t] = "view" /\ views_mutex = Null
  /\ views_mutex' = t
  /\ mine' = [mine EXCEPT ![t] = IF view_counts[id[t]] = Null THEN 1 ELSE view_counts[id[t]] + 1]
  /\ Goto(t, "views")
  /\ UNCHANGED <<memory, ratings_mutex, files, req, id, res, history>>

(* increment_view_count: the table under views_mutex_, ... *)
increment_view_count(t) ==
  /\ pc[t] = "view" /\ views_mutex = Null
  /\ views_mutex' = t
  /\ LET view_count == IF view_counts[id[t]] = Null THEN 1 ELSE view_counts[id[t]] + 1
     IN /\ view_counts' = [view_counts EXCEPT ![id[t]] = view_count]
        /\ mine' = [mine EXCEPT ![t] = view_count]
  /\ Goto(t, "views")
  /\ UNCHANGED <<loaded, id_count, ratings, ratings_mutex, files, req, id, res, history>>

(* ... and the file, still under views_mutex_. *)
write_views(t) ==
  /\ pc[t] = "views"
  /\ \/ /\ views' = [views EXCEPT ![id[t]] = Torn]
        /\ Goto(t, "views opened")
        /\ UNCHANGED <<views_mutex, stale>>
     \/ /\ views_mutex' = Null
        /\ stale' = stale \cup {<<"views", id[t]>>}
        /\ Goto(t, "read")
        /\ UNCHANGED views
  /\ UNCHANGED <<memory, ratings_mutex, dirs, content, rated, comment_dirs, comments, blank,
                 req, id, res, mine, requests, signals, ended, posted, offered, owed>>

(* Mutant: a return path without an unlock. *)
close_views_locked(t) ==
  /\ pc[t] = "views opened"
  /\ views' = [views EXCEPT ![id[t]] = mine[t]]
  /\ stale' = stale \ {<<"views", id[t]>>}
  /\ Goto(t, "read")
  /\ UNCHANGED <<memory, locks, dirs, content, rated, comment_dirs, comments, blank,
                 req, id, res, mine, requests, signals, ended, posted, offered, owed>>

close_views(t) ==
  /\ pc[t] = "views opened"
  /\ views' = [views EXCEPT ![id[t]] = mine[t]]
  /\ views_mutex' = Null
  /\ stale' = stale \ {<<"views", id[t]>>}
  /\ Goto(t, "read")
  /\ UNCHANGED <<memory, ratings_mutex, dirs, content, rated, comment_dirs, comments, blank,
                 req, id, res, mine, requests, signals, ended, posted, offered, owed>>

(* get_content, then the view count and the rating without their mutexes. *)
get_view_count(i) == IF view_counts[i] = Null THEN -1 ELSE view_counts[i]
get_rating(i) == IF ratings[i] = Null THEN -1 ELSE ratings[i].mean

Details(t, c) == [code |-> "ok", content |-> c, id |-> id[t],
                  views |-> get_view_count(id[t]), rating |-> get_rating(id[t])]

(* Mutant: the file is read without its path's mutex. *)
get_content_unlocked(t) ==
  /\ pc[t] = "read"
  /\ \/ content[id[t]] # Null /\ Answer(t, Details(t, content[id[t]]))
     \/ Failed(t, "refused")

get_content(t) ==
  /\ pc[t] = "read" /\ content[id[t]] # Torn
  /\ \/ /\ content[id[t]] \in Body
        /\ Answer(t, Details(t, content[id[t]]))
     \/ content[id[t]] \notin Body /\ Failed(t, "missing")
     \/ Failed(t, "refused")

-----------------------------------------------------------------------------
(* POST a comment: a rating and a text. *)

(* The id or the rating of the comment is not a number: 404. *)
bad_comment(t) ==
  /\ At(t, "handle", "comment") /\ req[t].body # Malformed /\ id[t] = Null
  /\ Failed(t, "not found")

(* add_rating: the table under ratings_mutex_, ... *)
add_rating(t) ==
  /\ At(t, "handle", "comment") /\ req[t].body # Malformed /\ id[t] # Null
  /\ ratings_mutex = Null
  /\ ratings_mutex' = t
  /\ ratings' = [ratings EXCEPT ![id[t]] = new_rating(@, req[t].rating)]
  /\ Goto(t, "ratings")
  /\ UNCHANGED <<loaded, id_count, view_counts, views_mutex, files, req, id, res, mine, history>>

(* ... and the file; the directory that should hold it need not exist. *)
write_ratings(t) ==
  /\ pc[t] = "ratings"
  /\ \/ /\ id[t] \in dirs
        /\ rated' = [rated EXCEPT ![id[t]] = Torn]
        /\ Goto(t, "ratings opened")
        /\ UNCHANGED <<ratings_mutex, stale>>
     \/ /\ ratings_mutex' = Null
        /\ stale' = stale \cup {<<"ratings", id[t]>>}
        /\ Goto(t, "comment")
        /\ UNCHANGED rated
  /\ UNCHANGED <<memory, views_mutex, dirs, content, views, comment_dirs, comments, blank,
                 req, id, res, mine, requests, signals, ended, posted, offered, owed>>

(* Mutant: the file gets the rating that was given and not the new mean. *)
close_ratings_given(t) ==
  /\ pc[t] = "ratings opened"
  /\ rated' = [rated EXCEPT ![id[t]] =
                 [count |-> ratings[id[t]].count, mean |-> of_int(req[t].rating)]]
  /\ ratings_mutex' = Null
  /\ stale' = stale \ {<<"ratings", id[t]>>}
  /\ Goto(t, "comment")
  /\ UNCHANGED <<memory, views_mutex, dirs, content, views, comment_dirs, comments, blank,
                 req, id, res, mine, requests, signals, ended, posted, offered, owed>>

close_ratings(t) ==
  /\ pc[t] = "ratings opened"
  /\ rated' = [rated EXCEPT ![id[t]] = to_string(ratings[id[t]])]
  /\ ratings_mutex' = Null
  /\ stale' = stale \ {<<"ratings", id[t]>>}
  /\ Goto(t, "comment")
  /\ UNCHANGED <<memory, views_mutex, dirs, content, views, comment_dirs, comments, blank,
                 req, id, res, mine, requests, signals, ended, posted, offered, owed>>

(* add_comment returns nothing: whatever happens here, the answer is 201. *)
Dropped(t) == Failed(t, "dropped")

(* Mutant: the id is not checked. *)
add_comment_unchecked(t) ==
  /\ pc[t] = "comment"
  /\ comment_dirs' = comment_dirs \cup {id[t]}
  /\ Goto(t, "comment file")
  /\ UNCHANGED <<memory, locks, dirs, content, views, rated, comments, blank,
                 req, id, res, mine, history>>

add_comment(t) ==
  /\ pc[t] = "comment"
  /\ \/ id[t] \notin dirs /\ Dropped(t)
     \/ /\ id[t] \in dirs
        /\ comment_dirs' = comment_dirs \cup {id[t]}
        /\ Goto(t, "comment file")
        /\ UNCHANGED <<memory, locks, dirs, content, views, rated, comments, blank,
                       req, id, res, mine, history>>
     \/ id[t] \notin comment_dirs /\ Dropped(t)

write_comment(t) ==
  /\ pc[t] = "comment file"
  /\ \/ /\ Goto(t, "comment opened")
        /\ UNCHANGED <<memory, locks, files, req, id, res, mine, history>>
     \/ Dropped(t)

comment_added(t) ==
  /\ pc[t] = "comment opened"
  /\ comments' = [comments EXCEPT ![id[t]] = @ + 1]
  /\ Respond(t, Message("commented"))
  /\ UNCHANGED <<memory, locks, dirs, content, views, rated, comment_dirs, blank, history>>

-----------------------------------------------------------------------------
(* GET the lists and a meme's details: nothing changes. *)

(* The lists go through the ids 1..id_count_ and the two tables. *)
list_memes(t) ==
  /\ At(t, "handle", "list") /\ req[t].body = Null
  /\ Answer(t, Message("ok"))

other_request(t) ==
  /\ At(t, "handle", "other")
  /\ Failed(t, "not found")

(* get_comments reads every comment, and an empty one does not parse, unless   *)
(* it cannot be read at all.                                                   *)
get_info(t) ==
  /\ At(t, "handle", "info") /\ req[t].body = Null
  /\ \/ id[t] \in blank /\ Exception
     \/ Answer(t, Details(t, Null))

-----------------------------------------------------------------------------
(* The first start, on an empty directory. *)
Init ==
  /\ loaded = FALSE
  /\ id_count = 0
  /\ view_counts = [i \in Id |-> Null]
  /\ ratings = [i \in Id |-> Null]
  /\ views_mutex = Null /\ ratings_mutex = Null
  /\ dirs = {} /\ comment_dirs = {} /\ blank = {}
  /\ content = [i \in Id |-> Null]
  /\ views = [i \in Id |-> Null]
  /\ rated = [i \in Id |-> Null]
  /\ comments = [i \in Id |-> 0]
  /\ pc = [t \in Thread |-> "idle"]
  /\ req = [t \in Thread |-> NoRequest]
  /\ id = [t \in Thread |-> Null]
  /\ res = [t \in Thread |-> Null]
  /\ mine = [t \in Thread |-> Null]
  /\ requests = 0 /\ signals = 0 /\ ended = Null
  /\ posted = [i \in Id |-> Null]
  /\ offered = [i \in Id |-> Null]
  /\ stale = {}
  /\ owed = [t \in Thread |-> FALSE]

Serve(t) ==
  \/ MemeModule(t) \/ create_handler(t) \/ parse_error(t)
  \/ generate_id(t) \/ create_directory(t) \/ write_content(t) \/ meme_created(t)
  \/ random_id(t) \/ get(t) \/ increment_view_count(t) \/ write_views(t) \/ close_views(t)
  \/ get_content(t)
  \/ bad_comment(t) \/ add_rating(t) \/ write_ratings(t) \/ close_ratings(t)
  \/ add_comment(t) \/ write_comment(t) \/ comment_added(t)
  \/ list_memes(t) \/ other_request(t) \/ get_info(t)

Next ==
  \/ \E t \in Thread, r \in Requests : receive(t, r)
  \/ \E t \in Thread : Serve(t)
  \/ interrupt_handler

Spec == Init /\ [][Next]_vars

-----------------------------------------------------------------------------
(* generate_id, "get an unique id": no meme whose POST was answered with 201  *)
(* is ever overwritten, not by a concurrent POST and not by one after any     *)
(* number of restarts that cut other operations off.                          *)
PostedIsKept == \A i \in Id : posted[i] # Null => content[i] = posted[i]

(* A GET answered with 200 returns the whole body that was posted under its   *)
(* id, also while the POST is still in progress.                              *)
Shown == {t \in Thread : res[t] # Null /\ res[t].content # Null}

ServedIsPosted == \A t \in Shown : res[t].content = offered[res[t].id]

(* A GET that arrives after its meme's POST was answered finds the meme. *)
PostedIsFound == \A t \in Thread : owed[t] /\ res[t] # Null => res[t].code # "missing"

(* A GET answered with 200 shows a view count that includes its own view,     *)
(* although it reads the count after views_mutex_ is unlocked.                *)
OwnViewIsCounted == \A t \in Shown : mine[t] # Null /\ res[t].views >= mine[t]

(* The views and ratings files keep up with the tables: when nobody is in the *)
(* middle of an update, they hold what the tables hold, unless an access to   *)
(* them was refused or a restart found them empty.                            *)
ViewsAreSaved ==
  loaded /\ views_mutex = Null =>
    \A i \in dirs : <<"views", i>> \notin stale =>
      views[i] = view_counts[i]

RatingsAreSaved ==
  loaded /\ ratings_mutex = Null =>
    \A i \in dirs : <<"ratings", i>> \notin stale =>
      rated[i] = IF ratings[i] = Null THEN Null ELSE to_string(ratings[i])

(* A mean rating lies between the lowest and the highest rating that is given, *)
(* whatever each operation, and the way through the file, has rounded: as long *)
(* as a float holds the sum of so many equal ratings (2^24 and less) exactly.  *)
Exact(n) == \A k \in 1..n : k * Unit \in Float /\ \A r \in Rating : k * r * Unit \in Float
InRange(m) == (\E r \in Rating : r * Unit <= m) /\ (\E r \in Rating : m <= r * Unit)

MeanIsInRange ==
  \A i \in Id : ratings[i] # Null /\ Exact(ratings[i].count) => InRange(ratings[i].mean)

(* Nobody is stuck: a request that cannot go on waits for a mutex, or for a    *)
(* file that is being written, that belongs to another request that can: no    *)
(* path of increment_view_count and add_rating keeps its mutex, and the locks  *)
(* of files and tables are never waited for in a circle.                       *)
NobodyIsStuck ==
  \A t \in Thread : pc[t] # "idle" => \E u \in Thread : ENABLED Serve(u)

-----------------------------------------------------------------------------
(* What makes those invariants inductive. *)

(* No request is past create() before the constructor has run. *)
HandledIsLoaded == \A t \in Thread : pc[t] \notin {"idle", "create"} => loaded

(* What a thread has established about its meme at each point of its request. *)
Posting == {"content", "content opened"}
Viewing == {"views", "views opened"}
Rated == {"ratings", "ratings opened"}
Established(t) ==
  /\ pc[t] # "idle" => res[t] = Null
  /\ pc[t] \in {"create", "handle"} /\ req[t].kind = "info" => id[t] \in Id
  /\ pc[t] \in Posting \cup {"mkdir"} => id[t] \in Id /\ req[t].body \in Body
  /\ pc[t] \in Posting \cup Viewing \cup {"view", "read", "ratings opened"} => id[t] \in dirs
  /\ pc[t] \in Rated \cup {"comment"} => id[t] \in Id
  /\ pc[t] \in {"comment file", "comment opened"} => id[t] \in comment_dirs

ThreadsInv == HandledIsLoaded /\ \A t \in Thread : Established(t)

(* A directory belongs to the one POST that has made it: until it is answered, *)
(* nobody else writes its content, and nothing was posted there.               *)
OnePostPerDirectory ==
  /\ \A t \in Thread : pc[t] \in Posting =>
       posted[id[t]] = Null /\ offered[id[t]] = req[t].body
  /\ \A t, u \in Thread :
       pc[t] \in Posting /\ pc[u] \in Posting /\ id[t] = id[u] => t = u

ContentIsThere == \A i \in Id \ dirs : content[i] = Null

(* What can be read is what was offered. *)
ContentIsOffered == \A i \in Id : content[i] \in Body => content[i] = offered[i]

PostsInv == OnePostPerDirectory /\ ContentIsThere /\ ContentIsOffered /\ PostedIsKept

(* What a GET is owed stays there, and what was shown. *)
OwedIsPosted ==
  \A t \in Thread : owed[t] /\ pc[t] # "idle" =>
    req[t].kind = "get" /\ id[t] \in Id /\ posted[id[t]] # Null
ShownIsThere == \A t \in Shown : res[t].id \in dirs

AnswersInv ==
  OwedIsPosted /\ ShownIsThere /\ ServedIsPosted /\ PostedIsFound /\ OwnViewIsCounted

(* The owner of views_mutex_ has counted and not saved yet. *)
ViewsAreOwned ==
  \A t \in Thread : pc[t] \in Viewing => views_mutex = t /\ view_counts[id[t]] = mine[t]
ViewIsCounted ==
  \A t \in Thread : pc[t] \in Viewing \cup {"read"} =>
    mine[t] \in Int /\ view_counts[id[t]] \in Int /\ mine[t] <= view_counts[id[t]]
TornViewsAreOwned ==
  \A i \in Id : views[i] = Torn => \E t \in Thread : pc[t] = "views opened" /\ id[t] = i
ViewsAreSavedOrOwned ==
  loaded => \A i \in Id :
    \/ <<"views", i>> \in stale \/ views[i] = view_counts[i]
    \/ \E t \in Thread : pc[t] \in Viewing /\ id[t] = i
ViewedIsThere == \A i \in Id \ dirs : view_counts[i] = Null /\ views[i] = Null

ViewsInv ==
  ViewsAreOwned /\ ViewIsCounted /\ TornViewsAreOwned /\ ViewsAreSavedOrOwned /\ ViewedIsThere

(* The same for ratings_mutex_; a rating need not have a meme, and the mean in *)
(* a file is rounded once more, but not out of range.                          *)
InFile(r) == IF r = Null THEN Null ELSE to_string(r)
RatingsAreOwned ==
  \A t \in Thread : pc[t] \in Rated => ratings_mutex = t /\ ratings[id[t]] # Null
TornRatingsAreOwned ==
  \A i \in Id : rated[i] = Torn => \E t \in Thread : pc[t] = "ratings opened" /\ id[t] = i
RatingsAreSavedOrOwned ==
  loaded => \A i \in Id :
    \/ <<"ratings", i>> \in stale \/ rated[i] = InFile(ratings[i])
    \/ \E t \in Thread : pc[t] \in Rated /\ id[t] = i
RatedIsThere == \A i \in Id \ dirs : rated[i] = Null

(* What a file has is the text of a float, so that to_string writes it again. *)
MeanIsFloat == \A i \in Id : ratings[i] # Null => ratings[i].mean \in Float
RatedIsGood ==
  \A i \in Id : rated[i] \in RatingEntry =>
    /\ \E f \in Float : rated[i].mean = Round(f, TextUnit) * TextUnit
    /\ Exact(rated[i].count) => InRange(rated[i].mean)

RatingsInv ==
  /\ RatingsAreOwned /\ TornRatingsAreOwned /\ RatingsAreSavedOrOwned /\ RatedIsThere
  /\ MeanIsFloat /\ RatedIsGood /\ MeanIsInRange

MemeInv == TypeOK /\ ThreadsInv /\ PostsInv /\ AnswersInv /\ ViewsInv /\ RatingsInv

-----------------------------------------------------------------------------
(* What the code says of itself and does not do. *)

(* MemeModuleRatingsTest, "create new meme", add_rating(new_id, 0),             *)
(* "ratings = 0": the first rating that a new meme is given is its mean, so a   *)
(* meme has no rating yet when its directory is made.                          *)
NewMemeIsUnrated == [][\A i \in dirs' \ dirs : ratings[i] = Null]_vars

(* handle_post_comment, "Successfully posted comment.": the comment was stored. *)
CommentIsStored == \A t \in Thread : res[t] # Null => res[t].code # "dropped"

(* MemeModule's constructor, "fail to load meta data": files that it cannot    *)
(* make sense of are logged and left out, and the service starts.              *)
ServiceStarts ==
  [][~(~loaded /\ (\E t \in Thread : pc[t] = "create" /\ pc'[t] = "idle") /\ ended' = "exception")]_vars
=============================================================================
