# A TLA+ model of the web server and the stores behind it

The repository is a multithreaded web server on boost::asio whose handlers keep
state in memory and in files: a CRUD API over JSON entities and a meme service
with views, ratings and comments. This directory models the way of a request
through it, from the text of the configuration and the accepted connection to
the files on the disk: what the worker threads do at the same time, what a
failed file access, a broken connection, an uncaught exception or an interrupt
leaves behind, and what the responses then mean. Paths below are relative to
the repository.

## The system

| Part | State | Operations | What makes it correct |
| --- | --- | --- | --- |
| `FileSystem`, `BoostFileSystem` | one mutex per path behind `fs_mutex_`; the disk | `get_mutex`, `cleanup_mutexes`, `write_file`, `read_file`, `delete_file`, `create_directory`, `delete_directory` | operations on a path exclude each other; each is atomic to its callers |
| `CrudHandlerFactory` | `entity_ids_`, `mutex_` | `create`, which scans the data directory for every request | after the scan the map covers the disk |
| `CrudHandler` | refers to the factory's map and mutex | POST, PUT, DELETE under `mutex_`; GET and list without | the disk is what the responses said; what was acknowledged is found |
| `MemeModule` | `id_count_`, `view_counts_`, `ratings_`, three mutexes; `content`, `views`, `ratings`, `comments/` per meme | constructor, `create`, `get`, `increment_view_count`, `add_rating`, `add_comment`, `get_comments`, `remove` | ids are unique across restarts; files keep up with tables |
| `MemeHandler`, `Meme`, `Comment` | none | the requests for memes | a 200 shows a meme that was posted, a 201 means it is stored |
| `MemeHandlerFactory` | `meme_modules_`, one module per root | `create` | one module per root |
| `session`, `tcp_socket` | buffers, the parsed request, itself | read header, read body, respond, write, delete | answers once, ends once |
| `server` | the acceptor, the worker threads | accept | always one pending accept |
| `RequestDispatcher` | prefix maps, constant after start | match, handle | longest prefix; the response matches the status |
| `NginxConfigParser` | parser state | parse | blocks nest |
| `server_main` | | SIGINT calls `exit` | |
| other handlers, `Logger`, `mime`, `get_response` | none that matters | | |

A `session` on a worker thread calls `RequestDispatcher::handle_request`, which
calls `create` of a factory and `handle_request` of the handler it gets, to the
end, on that thread. Nothing serialises two requests except the mutexes above.
An exception that leaves a handler leaves the worker thread and ends the process.

The hard parts are the interleavings of requests, in particular of those that
take no lock (the scan, every GET) with those that do; the end of the process
between the open and the close of a file; file accesses that fail half-way
through an update; and the rescan, which makes long sequences of harmless
requests build up copies in the map. Around the stores: a session is called
back by whichever worker is free and deletes itself in a callback, requests
arrive in pieces cut anywhere, clients go at any moment; and three parsers
written by hand (configuration, header, target) count characters. PROJECT.json
lists them as hazards, each
with its line.

## The modules

### FileSystem and AtomicFiles

`FileSystem` models `src/src/file_system.cc` and `src/src/boost_file_system.cc`.
A thread calls an operation, fetches its path's mutex (`get_mutex`, one step,
because it runs under `fs_mutex_`), locks it, works, unlocks, and drops its
`shared_ptr`. The mutex objects are modelled as heap objects: free when neither
the table nor an operation refers to them, and then reused. `cleanup_mutexes`
is called by nothing in the repository; here it may run at any moment, because
it is there to be called. Within the critical section the disk changes in the
steps that other threads can see: a write first empties the file and then fills
it, `remove_all` takes entries away one by one without locking them. Wherever
the code tests a stream or catches `filesystem_error` the access may be refused.

`AtomicFiles` is what callers may rely on: each operation takes effect in one
step between its call and its return, except that `delete_directory` removes
the entries below its directory one by one. `FileSystem!Atomicity` says that
`FileSystem` implements it. The mapping lets a write take effect when it opens
the file (`diskBar` already has the new content) and everything else when its
operation decides its status.

### CrudStore

`CrudStore` composes `CrudHandlerFactory` and the `CrudHandler`s of all worker
threads. The vector of ids of a directory is always sorted, so it is
represented by how often each id occurs in it, which is all the code can tell:
`get_available_id` and `erase` are stated on that. The scan is a loop that other
threads can interrupt after each entry. The locked handlers are split where the
disk or the map changes, so that an unlocked GET or a scan sees each
intermediate state. `Terminate` is both the SIGINT handler and an uncaught
exception (`stoi`'s `out_of_range`): memory is gone, the disk is as it was.
`acked`, `undeleted` and `owed` are history: what the responses said.

### MemeStore

`MemeStore` composes `MemeModule` and the `MemeHandler`s of all worker threads.
It uses the file layer at the level of `AtomicFiles`, which the theorem
`Refinement` justifies while the process runs, and keeps one step of the level
below: a file is `Torn` between the open and the close of its write, nobody can
read it then, and the end of the process turns it into an `Empty` file. The
constructor runs again after each restart, on what it finds, with any of its
accesses refused; what it reads into an uninitialized variable is any member of
`Garbage`. Means are floats: `Float` is the set of the numbers that a float
holds, in steps of 1/`Unit`, so that they are integers in the model. The
conversion of an `int`, the product, the sum and the quotient of the running
mean each give the nearest float, of two the even one, which loses more the
larger the numbers are. `to_string` keeps `TextUnit` steps, the six decimals,
and `stof` reads the nearest float again. A C++ `float` is an instance: its
numbers are multiples of 2^-149.

### CrudTarget

`CrudTarget` is the CRUD API again, at the level of text: targets and file names
are sequences of characters, ids are what `stoi` makes of them. Each handler
cuts its target in a way of its own, and each of these ways is an operator
(`target_dir`, `deletion_path`, `retrieve_path`) with the index arithmetic of
the code. `Entity` is the reference: a target names its last two segments. The
disk that a start finds may hold files that the service did not write, with
names like `01`, which `stoi` reads as 1, or names that are no number, for
which the scan pushes a variable that nobody has assigned (`Uninitialized`).
Ids are ints, the smallest included, and a POST whose id would not be one is not
modelled (`id <= MaxInt`). `Sorted` is `std::sort`: the n-th number is the least
that n of the vector do not exceed. What the properties need of requests and of
the disk is named: `CanonicalTargets` (ids of PUTs are written as `to_string`
writes them) and `NumberedNames` (the names of files are numbers).
One request is one step here: threads and failures are in `CrudStore`.

### MemeFactory

`MemeFactory` models `MemeHandlerFactory::create` on all worker threads, without
a lock: fetch a file system, look the root up, construct a module if it is not
there (the constructor lists the directories while others make more), assign
it, look it up again. Several locations have one root, each with a factory.
Of the modules it keeps what they share: the id counter of each, and the
directories and contents on the one disk, which each module protects with the
mutexes of its own file system only. `MemeStore` has the rest, for one module.

### Session and Connection

`Session` models `server`, `session`, the use of `http_request_parser` and the
io_service. An asynchronous operation is started, ends when the network says
so, and its callback is run by a free worker; `handle_accept` and the handler of
a request take a worker for several steps. The client sends its request in
pieces of any size, stops, or breaks the connection at any moment. Sessions and
sockets are heap objects whose addresses are reused, so that a callback for a
deleted session would be seen. A text is its length, which is all the code
computes with: `request_string_`, `request_body_`, `content_length_` are the
numbers of bytes, with the comparison of an int with a size_t as in the code.
What throws (`stoi`, `remote_endpoint()`, `shutdown()`) ends the process.

`Connection` is what a client may rely on: the server listens for one
connection at a time, answers each that it accepts at most once, closes it only
then, and says 500 only to one that has stopped sending. `Session!Promises`
says that `Session` implements it; a connection's phase is read off the
operations that are pending for its session.

### Dispatcher

`Dispatcher` goes from a configuration to a response: `main` refuses or starts,
`getFactories` and `getArguments` build the two maps, and each request is
matched, one location of the map per step, given to the factory, to the
handler, and to the switch over the handler's status. Paths and targets are
sequences of characters; `mismatch` is modelled with the terminating NUL that it
relies on when the target is shorter than the location. The stateless handlers (static, echo, health, block, 404)
are modelled by the status they return and by whether they have prepared the
response; a CRUD or meme handler returns any status that its code can.

### ConfigParser

`ConfigParser` is `NginxConfigParser` one character or token at a time, with its
state, its stack and `unget`, and then `ToString`, whose output is parsed again,
and `get_port_num`. The tree of blocks is flattened: each statement has the
number of the statement whose block it is in.

## Runs

| Run | Instance | Question |
| --- | --- | --- |
| `file_system` | 2 threads, a directory with a file in it, 3 mutex objects, 1 content | exclusion, no torn read, the inductive invariant, atomicity, and that somebody always comes out |
| `crud_store` | 2 threads, 1 directory, target ids 1 and 2, 2 bodies, 3 requests | the map, the disk and the responses agree; nobody is stuck |
| `crud_post` | 1 thread, 2 requests | violated, see below |
| `crud_target` | 15 targets, 2 bodies, 3 requests, 4 disks to start on; 11 is the largest int | do POST, PUT, DELETE and GET agree on what a target names |
| `meme_store` | 2 threads, 3 ids, 2 bodies, ratings 1 and 2, 3 requests, 1 interrupt | posted memes, views and ratings; nobody is stuck |
| `meme_start` | 1 thread | violated, see below |
| `meme_factory` | 2 threads, 2 locations with one root, 2 memes, 3 requests | how long the race for a module lasts, and what it cannot lose |
| `meme_factory_id` | 1 location, 2 requests | violated, see below |
| `session` | 2 sessions, 3 sockets, 2 workers, 4 kinds of request, pieces of up to 3 bytes, 1 accept that fails | one operation per session, always one that listens, an exact body, the promises of `Connection` |
| `session_live` | 2 sessions, no failing accept; Content-Length given twice, and negative | every complete request is answered, every session ends |
| `dispatcher` | all configurations of up to 2 locations out of 4 paths and 8 kinds, all targets of up to 4 characters | match, maps, null handlers |
| `config_parser` | all texts of up to 4 characters; up to 6 words and braces; up to 5 quotes, escapes and words; up to 5 ports and braces | what is accepted, lost, and written again |

`TypeOK` is checked where it is an inductive part of something: in
`file_system`, `meme_store`, and as a conjunct of `CrudInv`. In the other
modules it documents the state.

Why the bounds are enough. Exclusion and torn reads are conflicts of two
threads on one path; a third mutex object lets a path's mutex be replaced while
two operations still refer to others. One content is enough to tell a torn file
from a whole one; that it is the right content is `Refinement`, which is proved
for all. In the CRUD store a conflict needs two
requests in progress and one before them that set the stage; `Id` goes up to 5
so that the smallest free id is never cut off. In the meme store three requests
are a POST and two that race for the meme, or a POST, an interrupt, and two
requests on what it left; there are as many ids as requests, and more ids would
not be reached. Its floats have two bits, the integers up to 4, 6, 8 and 12,
halves below 2 and quarters below 1, and its texts keep thirds, so that every
operation rounds something, and a mean of two or three ratings too; the sums of
three ratings are exact. `meme_store` does not check for deadlock because both requests
and interrupts are bounded and the system then stops; `NobodyIsStuck` says that
nobody waits before that, or then, for a mutex whose holder cannot go on. In `crud_target` the targets have every number of
slashes from one to four, ids shorter and longer than what `to_string` makes of
them, and directories that look like ids; three requests are a write, a change
and a read. In `meme_factory` two requests race and the third comes late. In
`session` a header of two bytes and a body of two can be cut before, in and
after the blank line, and the third socket is the one that a failed accept
leaves behind; both sessions are reused after they were deleted, so that there
are more than two connections. A match is decided by the first character that
differs or by an end, and four characters have both; two locations are enough
for one to shadow or replace the other. The texts of `config_parser` reach every
pair of state and character, and a nesting of three. These runs do not check for
deadlock either: a request is served and nothing else need come, or the process
has ended.

What holds: in the file layer, everything asked of it. In the CRUD store, the
disk is always what the responses say (`DiskIsAcknowledged`), the map covers
the disk for every thread that has made its scan, except for the file in work
and those whose DELETE failed half-way (`MapCoversDisk`), and a GET does not
report as absent what was acknowledged before it arrived and nobody has asked
to delete (`AcknowledgedIsFound`). In the meme store, a meme whose POST was
answered is never overwritten (`PostedIsKept`): after a restart that could not
list all directories an id is given twice, and it is `create_directory`'s
conflict that saves the first meme. Its content is served whole or not at all
(`ServedIsPosted`), a viewer's count includes the viewer (`OwnViewIsCounted`),
the files hold what the tables hold unless an access failed
(`ViewsAreSaved`, `RatingsAreSaved`), and rounding does not push a mean out of
the range of its ratings (`MeanIsInRange`) as long as a float holds the sums of
so many ratings exactly, which it does up to 2^24. Beyond that the code's mean
does leave the range: the handler accepts any `int`, and the mean of the one
rating 16777217 is 16777216. In both stores a request that waits
for a mutex waits for one that can go on (`NobodyIsStuck`).

The CRUD handlers agree on what a target names as long as the id of a PUT is
written as `to_string` writes it, also beside files of other names
(`GetIsLastWrite`, `DiskIsStored`), and a listing names only ids that files have
had (`ListedWasNamed`). The race for a `MemeModule` is over with the first
assignment (`RaceIsAtTheStart`): only requests that had arrived by then can use
another module. One module never gives an id twice (`OneModuleOneId`), and even
beside a second module an answered meme is safe from all requests that arrive
later (`StoredIsKeptFromLater`). A session never has two operations or callbacks
(`OneOperation`), which is what makes `delete this` safe; the server always
listens (`AlwaysAccepting`); however a request is cut into pieces, the session's
`request_body_` is exactly what has arrived of its body when it is passed on to
`boost::beast`, and never less than Content-Length if it has one
(`BodyIsExact`); what the handler gets is that body cut to Content-Length and,
unless empty, followed by a blank line, which is outside the model; clients are answered once (`Promises`), and always if
they send what they announce (`SentIsAnswered`); sessions whose clients go are
deleted (`GoneIsDeleted`). A request is dispatched to the longest location that
is a prefix of it (`MatchIsLongest`), lookups never insert into the shared maps
(`ArgumentsCoverFactories`), what is configured is reached
(`ConfiguredIsServed`), and a null handler is called only if a type is unknown
or a block that needs a root does not begin with one (`GoodConfigServes`). Of a
configuration text without quotes nothing is lost (`NothingIsLost`), what
`ToString` writes is read as the same configuration (`RoundTrip`), `Parse` reads on
only while the tokens can still become a configuration and rejects none that is
one (`RejectedIsInvalid`), and a port that is a number is found exactly if it is
the only one and in range (`PortIsTheOnlyOne`). The converse of
`RejectedIsInvalid` does not hold: a text may be accepted although closing
braces are missing, and a last word that is cut off is dropped.

What does not hold, each shown by a run of its own:

- `PostIsNew`: every `create` pushes the ids on the disk again. With the vector
  1, 1 the smallest free id is taken to be 2, whether or not entity 2 exists,
  and POST empties its file.
- `ServiceStarts`: an interrupt in the middle of writing a ratings file leaves
  it empty, `stoi` throws, and the constructor's `catch` is for another type.
- `IdsAreUnique`: two first requests construct two modules, and two POSTs are
  answered with one id.

The following are stated in the modules too. They are not among the runs;
model-checked with the configuration named, each ends in a counterexample:

- `DeletedFromMap` (`MCCrudStoreDelete.cfg`): DELETE erases one copy of the id.
- `RetrievedIsStored` (`MCCrudStoreRead.cfg`): GET takes no lock and can read a
  file that a PUT has emptied.
- `NewMemeIsUnrated` (`MCMemeStoreRating.cfg`): a comment on an id without a
  meme counts as a rating of the meme that gets this id later.
- `CommentIsStored` (`MCMemeStoreComment.cfg`): "Successfully posted comment."
  is the answer also when nothing was stored.
- `GetIsLastWrite` with padded ids (`MCCrudTargetPut.cfg`): a PUT to `x/001` is
  stored as `0/1`, because the directory is cut off with the length of the
  printed id.
- `ListedWasNamed` with a foreign file (`MCCrudTargetForeign.cfg`): the id of a
  name that is no number is pushed although it was never assigned.
- `SocketsAreOwned` (`MCSessionLeak.cfg`): a failed accept deletes the session
  and not its socket.
- `EntireBodyIsRead` (`MCSessionBody.cfg`): Content-Length in another spelling
  is not seen, and the request is passed on with the part of the body that came
  with the header.
- `FactoryHasItsArguments` (`MCDispatcherClash.cfg`): a location given again
  with an unknown type keeps its factory and gets the other block as arguments.
- `HandlerErrorIsSent` (`MCDispatcherError.cfg`): the dispatcher replaces the
  body of an error response and leaves its Content-Length.
- `OpenFileIsServed` (`MCDispatcherMime.cfg`): `get_mime_type` throws for a file
  name without a dot.
- `AcceptedIsClosed`, `AcceptedIsWhole`, `PortIsNumber`
  (`MCConfigParserBraces.cfg`, `MCConfigParserWord.cfg`,
  `MCConfigParserPort.cfg`): files with open blocks, with a last word that is
  cut off, and with a port that is no number are accepted.

Fairness: `FileSystem!FairSpec` asks that a worker thread that can take a step
eventually does (`WF` of `Work(t)`): the operating system runs every thread.
Nothing is assumed of the mutexes: a waiting thread may be passed over, so
`Progress` only promises that some operation ends. Callers and `cleanup_mutexes`
need not act. The stores state no fairness; `NobodyIsStuck` is their safety part
of it.
`Session!FairSpec` asks that the network delivers what was sent and that
handlers return (`WF`), and strong fairness of each session's callback: another
session's callback may take the only free worker again and again, but the
io_service runs callbacks in the order in which their operations ended, so each
has its turn. Nothing is asked of clients: `SentIsAnswered` is about those that
have sent all they announced, `GoneIsDeleted` about those that are gone. A
client that does neither keeps its session forever; the code has no timeout.

For each property of a passing run there is a mutant: an operator marked so in
its module that changes one definition the way a plausible bug would, under
which TLC finds the property violated. The mutants are in no specification.

## Proofs

What is proved, and where; TLAPS checks every step, for all values of the
constants that meet the named assumptions. TLC evaluates these assumptions in
every run.

| Module | Theorems | From |
| --- | --- | --- |
| `FileSystemProofs` | `TypeCorrectness`, `MutualExclusion`, `ReadsAreWhole`, `Refinement` (`Spec => Atomicity`) | `IInv` |
| `CrudStoreProofs` | `TypeCorrect`, `MapCovers`, `Acknowledged`, `Found`, `MutexIsGivenBack` | `CrudInv` |
| `CrudTargetProofs` | `AvailableUnlessCopied`, `TypeCorrect`, `DiskIsWhatResponsesSay`, `GetSeesLastWrite`, `ListingsAreNamed` | `TypeOK`, `NamedInv` |
| `MemeFactoryProofs` | `TypeCorrect`, `RaceEnds`, `ModuleIds`, `KeptFromLater` | `FactoryInv` |
| `SessionProofs` | `TypeCorrect`, `Operations`, `Accepting`, `Bodies`, `Refinement` (`Spec => Promises`) | `SessionInv` |
| `MemeStoreProofs` | `TypeCorrect`, `Kept`, `Served`, `Found`, `Counted`, `ViewsSaved`, `RatingsSaved`, `Means`, `MutexesAreGivenBack` | `MemeInv` |
| `DispatcherProofs` | `TypeCorrect`, `Matching`, `ArgumentsCover`, `Configured`, `GoodServes` | `DispatcherInv` |
| `NumberLemmas` | least and greatest numbers of a set, the size of small sets | the library's facts |

Each module has a theorem `Invariance` (`Spec => []...`) for its inductive
invariant, from one lemma for the initial states and one per action, which goes
through the invariant conjunct by conjunct; the properties follow from it, most
of them as conjuncts.

**FileSystem.** The assumptions are `PathAssumption` (files are not
directories; below is transitive and irreflexive) and `ValueAssumption` (the
special values differ from the others). `PathExclusion` is not inductive: it
says nothing of how two threads on one
path come to hold the same mutex. `IInv` adds what they rely on. A thread past
`get_mutex` holds the object that the table has for its path
(`TableKeepsMutexes`): `cleanup_mutexes` preserves this because it only drops
objects no operation refers to. No object serves two paths (`OnePathPerMutex`),
since `make_shared` returns a free one. A mutex is owned by the thread inside,
and by none otherwise (`OwnersAreInside`), so a reused object is unlocked; this
is why unlocking before dropping the `shared_ptr` matters. Two threads inside
on one path then own the same mutex and are the same thread.
`TornOnlyByWriter` does the same for the disk: a file is torn only while its
writer is inside, so a reader, who excludes the writer, sees no torn file, and
what an operation has checked still holds when it acts on it. For the
refinement, `DiskBarDetermined` shows that a torn file has exactly one writer,
so that the `CHOOSE` in the mapping is determined; one lemma per action shows
that it maps to an action of `AtomicFiles` or is not seen there.

**CrudStore** (`CrudAssumption`: ids are finitely many integers, the special
values are told apart, and "absent" is no content). `DiskIsAcknowledged` exempts
the file that the owner of `mutex_` works on, so what the owner does last must
restore it: `NewOrOld` says what each point of a locked handler still knows of
the file it has opened or is about to remove, and holds because nobody else is
inside (`OneHandlerInside`). `MapCoversDisk` speaks of threads whose scan is
over; `ScanCoversDisk` extends it to scans that are under way: every file on the
disk is in the map, or in the part of the directory that this thread still has
before it, or in the hands of the owner of `mutex_`, or was left by a failed
DELETE. A file that is created behind a scan is covered because its
writer keeps `mutex_` until the id is in the map. `OwedIsKept` says that
what a GET is owed stays on the disk until the GET looks: no thread deletes it.

`MutexIsGivenBack` needs none of this: `OwnerIsInside` says that the owner of
`mutex_` is inside a locked handler, and is inductive, because each way out of
such a handler gives the mutex back. The points inside wait for nobody, so what
is left of `NobodyIsStuck` for TLC is that each of them has a step.
`MutexesAreGivenBack` of `MemeStoreProofs` says the same of `views_mutex_` and
`ratings_mutex_`.

**CrudTarget** (`TargetAssumption`: what a target is, that no path of a file
has an empty directory or name, and that what `stoi` throws is no int). The texts
are sequences of any length, and what recursive functions make of them is
proved without a theorem of induction: `LeastNumber` gives a set of numbers its
least member, which is induction in terms of sets (`SetInduction`). With it the
functions `Numbers` and `Digits` exist (`NumbersExist`, `DigitsExist`), and
`stoi` reads back what `to_string` prints (`NumberIsRead`) for every int, also
the smallest, whose negative is no int. That a sorted vector has the ids of the
unsorted one and is in order follows from its definition by order statistics
(`SortedIs`). `get_available_id` looks for the first place that the vector leaves
free. `AvailableUnlessCopied` says, of every map that has its type, when the id
it returns is nevertheless in the vector: at the place where it stops there is a
copy of the id before, or it stops at the front, at an id below 1. The code
produces both: a scan pushes an id again, and a PUT may name an id below 1.

For `DiskIsWhatResponsesSay` and `GetSeesLastWrite`, each handler's own way to cut
a target is shown to give what `Entity` does (`DeletionIsEntity`,
`RetrieveIsEntity`, `PutIsEntity`). The last holds only if the id is written as
`to_string` writes it, because the directory is cut off with the length of the
printed id. So both theorems assume `CanonicalTargets(PutTarget)`, and
`MCCrudTargetPut.cfg` has the counterexample with `001`. `ListingsAreNamed` assumes
`NumberedNames(Found)`, that a start finds no file with a name that is no
number, and `MCCrudTargetForeign.cfg` shows what happens otherwise. The instance
of `MCCrudTarget.cfg` satisfies both, and each of the other two instances lacks
one (the `ASSUME` of `MCCrudTarget`). The inductive invariant of the last
theorem, `NamedInv`, says that every number in the name of a file, and every id
in the map, has been given to a file of that directory.

**MemeStore** (`MemeAssumption`: ids are `1..n`, ratings and what an
uninitialized `int` holds are integers, floats are integers in steps of 1/`Unit`
with 1 among them, the text of a mean loses whole steps, the special values are
told apart; for the `float` of the code, `Unit` is 2^149 times 5^6). `MemeInv` has five groups
besides the types. `ThreadsInv` says what a thread has established about its
meme at each point of its request: nobody is past `create` before the
constructor has run, and from the first write on the directory is there.
`PostsInv`: `create_directory` fails on a directory that is there, so a directory
belongs to the one POST that made it (`OnePostPerDirectory`), and what can be
read in it is what was offered (`ContentIsOffered`). This needs that
`create_directory` is atomic, but neither `id_mutex_` nor unique ids, so
`PostedIsKept` survives restarts that skip directories and give their ids again. `AnswersInv`: what a GET is owed was posted, and what a response
shows was in memory or on the disk at that moment; `OwnViewIsCounted` holds
although `get_view_count` reads without `views_mutex_`, because counts only grow
while the process runs (`ViewIsCounted`). `ViewsInv` and `RatingsInv` say
what the owner of the mutex owes the file: a thread between counting and
closing the file owns the mutex (`ViewsAreOwned`), only such a thread leaves a
file torn (`TornViewsAreOwned`), and every file holds what the table holds or
its meme is in the hands of the owner (`ViewsAreSavedOrOwned`), so that
`ViewsAreSaved` follows when there is none. For ratings, `RatedIsGood` adds that
a mean in a file is the text of a float, so that the float read from it is
written with the same text again (`WrittenTwice`), and in range. That the mean
stays in range is arithmetic about the nearest float, of which nothing is used
but that it exists (`FloatIs`) and that none is nearer: a float is its own nearest
(`FloatExact`), so a number on one side of a float is rounded to that side
(`FloatAbove`, `FloatBelow`). As long as the sums of `count` equal ratings are
floats (`Exact`), the product, the sum and the quotient of `new_rating` each stay
between those of the lowest and of the highest rating (`MeanAbove`,
`MeanBelow`). The bounds are whole numbers, which the six decimals keep
(`WrittenInRange`, `ReadInRange`).

**MemeFactory** (`FactoryAssumption`: as many ids as requests). The race is over
because a worker that constructs a module had found the table empty, so it had
arrived before the table was filled (`RaceIsAtTheStart`, which needs
`OneWorkerPerRequest` for the order of arrivals and `TableIsFilled` for a table
that is never emptied). `OneModuleOneId` needs that all ids that a module gave
are at most its counter (`IdsAreCounted`) and that no constructor resets a
counter in use (`ConstructedBeforeUse`). `StoredIsKeptFromLater` rests on
`LateComersConflict`: a worker past `exist()` with the id of a stored meme had
arrived before it was stored, because whoever comes later finds the directory
(`IdsAreGiven`). The bound of `IdsAreCounted` by the number of requests shows that
the model's ids never run out.

**Session** (`SessionAssumption`: finite sets of addresses, one more socket for
each accept that may fail, `max_length` positive). `OneOperation` counts
operations, callbacks and workers. `OnePlace` says the same without numbers: a
session that exists is in exactly one place, and `live` are those that are
anywhere; likewise `OneAcceptor` for `AlwaysAccepting`. `BodyIsExact` needs what
each place knows of the conversation: a session that is not connected has
nothing of an earlier connection (`BlankUntilConnected`, although addresses are
reused), while the header is read everything read is in `request_string_`, less
than the header (`HeaderIsWhatWasRead`), then everything after it is in
`request_body_` (`BodyIsTheRest`), and a worker that passes
it on to `boost::beast` has all of it (`PassedOnIsComplete`). For `Promises`, `AnsweredIsWritten` ties `response_` to
the pending write, and each action is shown to map to an action of `Connection`
or to change nothing there.

**Dispatcher** (`DispatcherAssumption`: what a configuration and a target are
made of). `match` is a step per location, so that what its loop computes is an
invariant and not a fold: the best location so far is the longest prefix among
those behind the loop (`BestSoFar`), and when none are before it (`MatchEnds`)
this is `MatchIsLongest`. The order of the map does not matter to it. That
`mismatch` reaches the end of a location exactly if that is a prefix, and reads
at most the NUL of the target, is `MismatchFacts`: the first place where two texts differ
exists because every set of numbers has a least one (`LeastNumber`).
`MapsAreTheConfigs` says that the maps are either not filled yet or what
`getFactories` and `getArguments` make of the configuration; the locations of
the first are then locations of the second (`ArgumentsCover`). For
`ConfiguredIsServed`, a key is a prefix of every way to write its path with or
without slashes at the end (`SlashesRemoved`, `PrefixOfPrefix`), so that `match`
would have found it. For `GoodConfigServes`, the last statement of each key is
the one in the map (`MapFacts`), and if all statements are in order both maps are
made of the same statements, so that the block that is looked up is that of the
factory (`CreateGood`).

Only model-checked:

- the liveness properties `Progress`, `SentIsAnswered`, `GoneIsDeleted`, and
  `NobodyIsStuck` of both stores, which is stated with ENABLED: out of the
  prover's reach;
- `RejectedIsInvalid`, `NothingIsLost`, `RoundTrip`, `PortIsTheOnlyOne` of
  `ConfigParser`: they compare a tree of blocks of any depth with the text it was
  read from, through `ToString` and the grammar, which are recursive over the
  tree and over the text.

`MemeInv` and `DispatcherInv` contain the properties of their runs and were
checked by TLC on the instances of `MCMemeStore.cfg` and `MCDispatcher.cfg`
before they were proved. `MemeInv` was not inductive at first: it has to say
that a request for the comments of a meme carries an id from its arrival on,
because the response shows it.

## Not modelled

- Data races as such. The scan, GET, `get_view_count` and `get_rating` read
  containers that others change without a common mutex, and so do all
  `MemeHandlerFactory::create` calls. Each access is one step here; what a torn vector or tree node would do is not modelled.
- A disk that fills up: `write_file` and the CRUD handlers test only whether
  the stream opened. Content that was accepted is assumed to reach the disk.
- Errors of the directory iterators themselves, and overflow of view counts.
- `MemeModule::remove`, which no handler calls, and `NginxConfig::getPaths`,
  which only the tests call.
- `atoi` on a port that int cannot hold, which is undefined, and a NUL in a
  configuration file.
- A machine on which `hardware_concurrency()` is 0, where no thread runs the
  io_service and the server returns at once.
- Targets with `.` and `..`: names of directories are plain words in
  `CrudTarget` and `Dispatcher`'s files are a given set.
- `Logger`, the HTML of the pages, the choice among MIME types: output that
  nothing depends on. `get_response` and `http_response` are not used by the
  server any more.

## Plan

The plan is carried out. What could be added:

1. `ConfigParser`'s stack of blocks: that it is a path of the tree (its `TypeOK`)
   is inductive and needs no recursion; likewise that no character is read twice.
2. `MemeStore`'s view counts as an abstract counter per meme, which it
   implements while the process runs.
