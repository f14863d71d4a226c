# Verification of dataquery

dataquery is a service of several instances ("pods"): it answers GraphQL
queries over relational and HBase data, and runs named SQL queries.  The
instances share a database per tenant, a model service that says what types a
tenant's model has, and a *state stream* (AppState) on which each instance
publishes small records and from which every instance, the publisher included
(`setFilterOwn(false)`), consumes them.  Java sources are below
`src/src/main/java/com/opentext/infofabric/dataquery/`; paths in this file are
relative to it.

## 1. Inventory

| Component | State it keeps | Operations | Interacts with |
|---|---|---|---|
| Named query jobs (`NamedQueryExecutorServiceImpl`, `NamedQueryTaskResource`) | map of jobs per node, one mutable response object per job, a suspended HTTP response, a timer | execute, preview, status | connection pool, state stream, catalogue |
| Catalogue of query texts (same class, `queryMap`) | a plain HashMap per node | getQuery, getNames, updateMap, updateSql | state store (query), state stream |
| Permission cache (`AppStateService`) | a concurrent map per node | build at start, update from stream, look up | state store, state stream, every request |
| GraphQL services (`GraphQLService`, `GraphQLServlet`) | two concurrent maps per node: executable service, SDL text | POST (query), GET (SDL), GET with refresh, processDmModel | model service, state stream |
| Row lock (`RecordLockGet`, `RecordLockRelease`, `NamedUpdateStatement`) | three columns of a database row | get, release | database, clients on any node |
| Result streaming (`ResultSetStreamUtil`) | per call: current payload, processor task | stream, getSyncResponse | message stream |
| Connection pools (`RDBMSConnectionProvider`) | a pool per tenant and user | getConnection, close | every SQL path |
| HBase connection (`HBaseQuery`) | one static connection | configure, query, cleanUp | raw query and GraphQL requests |
| Multi-query traversal (`RecursiveTraversal`, `RDBMSBatchLoader`) | per request: a data loader with cache and queue, results being completed | load, dispatch, match, assign | pools, AccessPrivileges |
| Single-query traversal (`SingleTraversal`, `RDBMSSimpleLoader`) | per request: rows being folded into a tree | execute, parseTabularTree | pools |
| Object and row security (`AccessPrivileges`, `DataqueryUtils`) | none | union of privileges of a user's roles, isAuthorized, row filters | permission cache |
| Mutations (`RootDataMutator`, `DatacastTransactionServiceImpl`) | per request: a context that all root fields share | collect types, authorize, send | datacast service, permission cache |
| Query complexity (`FieldComplexityCalculatorImpl`) | per document: a sum for each field | calculate | every GraphQL request |
| Named parameters (`NamedPreparedStatement`, `preview`) | per job: a list of names, the text shown | prepareStatement, set, check of the variables | named query jobs, JDBC |
| SDL and SQL generation | none | pure functions of a request or a model | |
| Filters and SQL (`FilterSet`, `SQLQueryParser`, `SQLSimpleParser`) | per request: a tree of filter sets, a list of values | validate, add row security, generate | permission cache, database |
| Response cache (`ResponseCache`) | a bounded cache per tenant, model and view | get, put | not registered: `DataqueryApplication` line 155 |

Behaviours that are hard here:

- *A mutable object shared by threads.*  A job's response is changed by the
  request's thread, put into the map and published by the timeout handler, and
  replaced by the stream's consumer.
- *Copies that travel.*  What one node publishes reaches the others later, and
  the publisher itself too.
- *Check, fetch, put.*  The service maps, the catalogue and the permission
  cache are filled by threads that read a remote source and put what they read
  into a map later, without a lock, while consumers put newer values.
- *Answers owed.*  `@Suspended` responses have to be resumed on every path,
  one of them before a 60 second timer and one with no timer at all.
- *Resources.*  Pooled connections that must be closed on every path; one
  static HBase connection that all requests configure and close.
- *Effects without a transaction.*  The fields of a mutation are sent one by one
  to another service, and an answer may be lost after its effect.
- *Hand-written arithmetic and scanners.*  Two counts in one number, pages counted
  from 1, payload boundaries, quotes and comments read a character ahead.
- *Time.*  Leases compared with the database's clock by statements that wait.

What makes each component correct: a job's published status never goes back and
never precedes its result, a success is reported, every request is answered and
its connection returned; two clients never hold one row lock; a refresh is
current and reaches the pods; a cache filled while it is updated keeps the newer
value; a stream carries each row once; a value is bound
where its name stands; a mutation reaches the other service as it was asked and
allowed, and is called done only if it was applied; a limit means what it counts;
a child is attached to its own parent and
to no other; a type is shown only to who may see it.

## 2. Modules

| Module | Models | State and actions |
|---|---|---|
| `NamedQueryJobs` | `NamedQueryExecutorServiceImpl.executeQuery`, `preview`, `previewQuery`, the job part of `AppStateService`, the pool of connections as a number | `pc`, `res`, `result`, `conn`, `local` are the thread and its local objects; `timeout`, `handler` the timer and the AtomicBoolean; `board` the map per node (`Live` is a reference to the mutable object, a record is a copy); `log`, `applied` the stream and what each node has consumed.  One action per statement of the thread that another thread can observe. |
| `RecordLock` | the UPDATE of `RecordLockGet`/`RecordLockRelease`, run by `NamedUpdateStatement` | `row` holds `lock_id` and `lock_exp`; `stmt` the statements under way (sent, started with its `now()`, applied with its update count); `lease` what the client counts on |
| `ModelServices` | `GraphQLServlet.doPost`, `doGet`, `GraphQLService.createService`, `hasService`, `getSDL`, `AppStateService.processDmModel` | `services`, `schemas` the two maps of one model per node; `pc`, `sdl` the threads of requests and consumers; `announced`, `taken` the stream; `version` the model |
| `QueryCatalog` | `getQuery`, `getNames`, `updateMap`, `NamedQuerySqlResource.updateSql`, `AppStateService.processSqlResource` | `queryMap` per node; `store`, `stream`, `offset` the shared store and its updates; `req` the requests, between `containsKey`, the query of the store, each `put` and the final `get` |
| `Permissions` | `DataqueryApplication.run` from the subscription on, `buildDMPermissionCache`, `processDmPermission`, `getaccessPrivileges`, `AccessPrivileges`, `populateRowSecurity`, the decision of `SingleTraversal.execute` | `cache` per node; `start` the thread that starts it; `store`, `stream`, `offset` as above; `req` a request that reads its user's roles one by one and decides |
| `AsyncJob` | what asynchronous named queries promise about a job, without threads, maps or a stream | `stage` how far the work is, `public` what was announced last, `seen` what each node reports, `said` the answer |
| `Lease` | what a lock of a row promises | `holders`: at most one, and none between two |
| `ResultStream` | `ResultSetStreamUtil.stream`, `sendToStream` | `rowCount`, `jsonArray`; `sent` the payloads, `events` the endings of the processor task |
| `NamedParameters` | `NamedPreparedStatement.prepareStatement`, `getParameterIndexes` and the setters, the part of `preview` that checks and sets variables | `pos`, `mode`, `parsedQuery`, `lstParameters` the scanner; `nextVar`, `params`, `originalSQL` the loop over the variables |
| `QueryRun` | `executeQuery` from `preview()` to the rows sent: `NamedParameters` and `ResultStream` one after the other | the variables of both; `Bind`, `Execute`, `Write` |
| `FieldComplexity` | `FieldComplexityCalculatorImpl.calculate` under graphql-java's visitor | `visited`, `valuesByParent` the visit; `verdict` |
| `Mutations` | `RootDataMutator.get`, `DatacastTransactionServiceImpl.upsert`, `BaseManagerImpl.executeRequest`, the answer of `GraphQLServlet.doPost`; extends `FieldComplexity` | `root`, `at` the field at work; `queryType` the shared context; `received` what datacast got and applied; `result`, `answer` |
| `HBaseConnections` | `HBaseQuery`, `HBaseConnectionImpl` as `RawQueryServlet` and `HbaseBatchLoader` use them | `dbc` the one connection, `open` those not closed; `req` each request with its tables, scanner and rows.  One action per open, read and close |
| `BatchJoin` | `RecursiveTraversal`, `RDBMSBatchLoader`, the table and keys of `SQLBatchParser`, `Query.equals` and `hashCode` as the loader's cache uses them | `queue` of the request's data loader; `shared` the parents that wait for a sibling's query; `loads` the batches and the threads that run their callbacks; `given` the children assigned |
| `FilterSets` | `FilterSet`, `SingleTraversal.populateFilterSetForType`, `SQLQueryParser`, the order of the values of `SQLSimpleParser` | `filterSet` as it is validated, secured and turned into a condition (`on`, `where`) and `parameters`; `row`, `shown` what the database makes of it |
| `TreeAssembly` | `SQLSimpleParser`'s statement, `RDBMSSimpleLoader.parseTabularTree`, `ResultObject` | `resultSet`, `todo` the rows; `objectCache`, `children`, `resultList` the tree |
| `MC*` | small instances | values of the constants, symmetry |
| `*_proofs` | theorems: of `NamedQueryJobs`, `ModelServices` and `Permissions` in modules of their names, of `Mutations` and `FilterSets` in `Requests_proofs`, of `RecordLock` and `HBaseConnections` in `Resources_proofs`, of `QueryCatalog` and `QueryRun` in `NamedQueries_proofs`, of `BatchJoin` and `TreeAssembly` in `Traversals_proofs` | see section 5 |
| `InductionFacts` | nothing of the code: induction and recursion over the natural numbers and over sets with a depth, stated of sets and functions | see section 5 |

How they meet.  `NamedQueryJobs` looks a text up in what `QueryCatalog` keeps;
each sees the other as one step that succeeds or fails.  Its steps `Bind`,
`BindFails`, `Execute` and `WriteResult` are detailed by `QueryRun`, which
composes `NamedParameters` and `ResultStream`: the names of the two components'
variables are disjoint, a step of one leaves the other's alone, and a statement
that is ready starts the stream.  `Mutations` extends `FieldComplexity`: a
document is visited whole before its first field is executed.  `Permissions`
says which documents decide a request and gives the row security that
`FilterSets` adds to a query; `FilterSets` says which rows a condition lets
through, `TreeAssembly` what becomes of the rows, and `BatchJoin` what the other
traversal does instead.  The servlet asks for the single-query model only
(`GraphQLServlet` 146); the multi-query model, `RecursiveTraversal`, is chosen by
callers of `GraphQLService.execute`, of which `src/main` has no other.  The three caches (`ModelServices`, `QueryCatalog`,
`Permissions`) have the same shape, a fill by check, fetch and put against a
consumer that puts what the stream brings, and three different answers to what
may go wrong.

Two abstract specifications say what a component promises, and the detailed
modules implement them by a refinement mapping (`INSTANCE ... WITH`).
`NamedQueryJobs!ImplementsAsyncJob` maps the job's status to a stage, the newest
copy on the stream to what is public, and, for nodes other than the job's own,
the entry of the map to what is seen; so two threads that publish one mutable
object, consumers and restarts together make steps of `AsyncJob` or none.
`RecordLock!ImplementsLease` maps the lock to the clients that count on it.

Modules whose theorems share a module name their specifications apart
(`LockSpec`, `RunSpec`, `StreamSpec`, `TreeSpec`, ...).

Most modules are about one key of the code's maps (a job id, a row, a
tenant-model pair), because keys share nothing.  `QueryCatalog` has several: a
list puts them one by one, and two puts into a plain HashMap can lose one.
Variables and fields marked *history* (`seen`, `crossed`, `known`, `calm`, ...)
are read by no guard.  Operators whose comment begins with *Fault* or *A slip*
are wrong variants of the definition that follows; no specification uses them.
They document, for each property, a change of the code that it would reveal.

What the modules abstract: a query, its text, rows and variables are a
`kind` and success or failure at each call that can throw; an SDL is the version
of the model it was made from, a text or a document the position of the update
that wrote it; a filter is a column and whether its comparison holds, with the
third truth value of SQL for null; an object is its primary key; a text with
parameters is a sequence of symbols, where a name, a value and a quote are one
each; an input of a mutation is the set of types it reaches; a document is the
tree of its fields.  A failure of
any remote service is a nondeterministic choice at the call.

External, and modelled from their use:

- `AsyncResponse.resume`: the first call wins, a timer fires only while the
  response is suspended;
- the state stream: an update copies the object and appends in one step; updates
  arrive in order, and the last one may come again after a restart; an update is
  in the store when it is in the stream;
- `HashMap` used by two threads: of two puts that both add a key, one may be lost,
  and a put for a known name may be lost when the other adds one, since the table
  may grow then.  A read that misses a known name while the table grows is left
  out: such a request would query the store once more, or fail in `get`;
- `java-dataloader`: `load` and `dispatch` are atomic, `dispatch` cuts the queue
  into batches of `DEFAULT_LOADER_OPTIONS` and its future is done when the
  callbacks of its batches are; it caches the future of a query until its
  statement fails;
- identity hash codes: those of two join conditions may be the same;
- the database: it evaluates conditions with three truth values, compares values
  and not Java types, and numbers placeholders from left to right; JDBC and the
  HBase client fail at any call;
- graphql-java: it visits the fields of a document children first, sums their
  complexities, stops a document over a limit, and executes the root fields of a
  mutation one after the other, a failed one leaving an error and no result;
- datacast: it applies a request or refuses it; the HTTP client fails before or
  after that, and repeats nothing;
- the model service, the administration of roles, the clients of the row lock.

`RecordLock` needs a word on its clients, since a lock is a protocol between the
statement and who relies on it.  The code offers no client.  The one modelled is
careful: it counts its lease from the moment at which it sent the statement, or
the earliest of its statements that were unanswered then; a release voids what
is unanswered.  A client that counted a renewal from its own sending while an
older get is unanswered would be wrong: that get may be applied last and shorten
`lock_exp`.  So the property `Exclusive` says what the statements are good for,
and the comment of `SendGet` at which price.

## 3. Runs

Sizes are distinct states; each run takes less than two minutes with two workers.
`CurrentUnlessCrossed` is the name of a property of each of two modules.

| Run | Instance | Shows |
|---|---|---|
| `jobs` | 1 job, 2 nodes, 2 restarts each, pool of 1, stream may fail, fair (138 k) | `SuccessCarriesResult`, `UnfinishedMeansFailed`, `JobIdIsKnown`, `LeakOnlyWhenBindingFails`, `ImplementsAsyncJob`, `ExecuteIsAnswered`, `SuccessReachesEveryNode` |
| `lock_retry` | 2 clients, one with two statements at once, lease of 1 tick, time to 2 (1.7 M) | `Exclusive`, `ImplementsLease` |
| `models` | 2 nodes, of which one has 2 requests, 2 versions, failures, fair (291 k) | `RefreshIsCurrent`, `SchemaFollowsService`, `NodeFollowsUnlessCrossed`, `EveryRequestEnds` |
| `query_run` | texts of up to 4 pieces out of 11 (references in both cases, one that begins with another, quotes, halves of comments, `?`), 9 requests of up to 3 variables, 0 to 5 rows, 2 to a payload (1.3 M) | `BoundByName`, `PreviewIsExecuted`, `EachRowOnce`, `ReturnedMeansSent` |
| `mutations` | all documents of up to 5 fields, mutations of up to 3, limits of 2 fields and 1 join with a join worth 4, 2 types, 2 users (91 k) | `WithinLimits`, `ReceivedAsAsked`, `AnswerTellsEffect` |
| `catalog_fill` | 1 node that may restart, 2 names, 2 requests, 3 updates (2.4 M) | `CurrentUnlessCrossed`, `FoundWhenStored` |
| `permissions` | 1 node that starts twice, 2 roles, 1 request, 3 updates (1.8 M) | `CurrentUnlessCrossed`, `DecidedByWhatIsKnown`, `CalmAnswerIsTheStores` |
| `hbase` | 2 requests of any kind, 3 rows, page sizes 0 and 2, pages 0, 2 and 4, ints of -5 to 4 (382 k) | `AloneIsServed`, `AloneLeavesNoConnection`, `HandlesGivenBack`, `RawScanIsAPage` |
| `batch` | 3 levels, 3 parents, batches of 2, statements that may fail, a user with and one without the right to a nested type, two objects whose join condition may clash with a sibling's, fair (208 k) | `TypeOK`, `NothingIsLeft`, `AnswerIsTheJoin`, `DeniedIsNotGiven`, `RequestEnds` |
| `batch_mixed` | the same, nothing fails | a violation, see section 6 |
| `filters_trees` | all filter sets of up to three levels over two columns in the shapes of `MCFilterSets`, with and without row security and a filtered join (44 k) | `ShowsWhatIsMeant`, `SecurityNarrows`, `ParametersFit` |
| `tree_pages` | 256 databases of four types with 16 queries of each, 4 096 initial states (26 k) | `HeldAsRead`, `PageOfRoots`, `PageCutsNoChildren` |

Why the bounds are enough.  Jobs meet only in the pool, so the properties of one
job need one job, its owner and one other node; that jobs do not lose each
other's connections is the theorem `OnlyBindingLeaks`, for any number of them.  A
restart forgets everything a node has, so a second one starts from what the
first left.  A conflict over a row lock is between the holder and one other, and
the hazard of a retry is between two statements of one client; with a lease of
one tick, expiry, take-over and a late statement fit in two ticks.  A stale fill
is one filler with the old value and one with the new; in each of the three
caches there are two requests, or a start and a request, beside the consumer, and
enough updates for one before, one during and one after a fill.  In `models` the
requests are on one node, because nodes meet only through announcements, and the
other node shows what an announcement does where nobody asks.  A payload
boundary is met with no row, an incomplete payload, one and several complete
ones, and each with a rest.  Four pieces of text are enough to open a literal or
a comment, put a reference or half of a comment in it, close it and have a
reference after it; three variables give one name twice, in another case, with
another name between.  Five fields have every nesting of joins that two limits
can tell apart.  A join worth 4 with at most 2 fields stands for one worth 1000 with
at most some hundreds: the sum of a selection is refused at 3 fields, and a sum of
siblings may still pass over the limit into the next multiple.  Three root fields are one that
fails, one before it and one after.  Connections cross as soon as two requests overlap.
Three parents are the least that fill one batch and begin another, so that two
threads resolve at once; the level below has two fields, so that their queries
mix.  One root and one object of the second level may share a sibling's future, the
latter, whose sibling's query another thread may dispatch first, in the queue, on
its way or answered.  One of the two fields refers to its parents by a column of a narrower type than
their key: SQL finds such keys equal, Java does not, and `Comparable` leaves the
field out of what `AnswerIsTheJoin` promises.  A filter set of three levels has a set that is root, one that is inner and
one that is a leaf, and two columns tell AND from OR.  Roots with none, one and
several children in two lists make the product of rows that a page must not
count.  The theorems of section 5 drop the bounds of the modules they are about.

`CHECK_DEADLOCK FALSE` is set in every configuration because every behaviour ends:
each job and each request is served once, and the bounds stop restarts, time and
versions.

## 4. Fairness

`NamedQueryJobs!FairSpec`: the JVM schedules a runnable thread, so a timer that
is armed fires while the response is suspended, its handler runs to its end, a
node's consumer takes the next event, a failing thread reaches its `catch`, and
a thread that has set success goes on to publish.  Nothing is assumed of
`preview()` and `execute()`: the database may never answer, and
`ExecuteIsAnswered` holds all the same, thanks to the timer.  The lookup of the
query text is assumed to end, because the timer is armed after it
(`executeQuery` lines 92 and 99).  A restart loses the answer, and a handler
whose publication throws ends without a job id: the properties name these cases
and no other.

`ModelServices!Fairness`, in the run `FairOnePlace`: a request that was accepted is
served, including its call of the model service, which answers or fails; the
consumers run.  No request has to arrive and the model need not change.

`BatchJoin!FairSpec`: as long as some thread of the pool can run, one does, and a
statement that was sent ends.  Weak fairness of the whole next-state relation is
enough, because no behaviour of a request is infinite.

## 5. Proofs

All are checked by TLAPS.  Liveness and fairness stay with TLC, because `ENABLED`
is out of the prover's reach.

`NamedQueryJobs_proofs`, from `JobsAssumption`.  Each invariant is inductive
relative to the ones before it:

- `TypeCorrect`;
- `FlowCorrect`: what each point of the thread implies for `res`, `result`,
  `conn`, `local` (for example, past `Finish` the status is success and the
  result is there);
- `PublishedCorrect`: every copy on the stream has a status and a result the
  object has had, in order.  This is the strengthening that `SuccessIsComplete`
  and `StreamIsMonotone` need: a copy is as good as the object was when copied,
  and the object only advances;
- `MappedCorrect`: an entry of a map is `Absent`, the live object of the node's
  own job, or a copy taken from the stream at the index the node has consumed;
- `HandledCorrect`: where the handler is, against `timeout`, the map and the
  stream.  With `timeout` set before the copy is made and checked after success
  is set, one of the two publications is made after success: this is
  `TimedOutSuccessIsReported`;
- `AsyncJobRefinement`: with the invariants above, every step of every action is a
  step of `AsyncJob` under the mapping, or changes nothing of it;
- `PooledCorrect`: a connection is out exactly between its two ends, which gives
  `OnlyBindingLeaks`.

`Resources_proofs`, of `RecordLock`, from `LockAssumption`, for any clients, patience and lease.
`Exclusive` is not inductive: nothing in it says that a lease that is counted on
is in the row.  The strengthening `Inv` has four parts: `Timely` (a statement's
base is not after it was sent, nor that after it started), `Void` (while a release
is unanswered no lease counts), `Oldest` (every unanswered get of a client
started no earlier than the base of its lease) and `Backed` (a lease, or a grant
not yet received, is covered by the row: the row carries the client's id and
expires no earlier).  Two holders would both have their id in one row.
`LeaseRefinement` follows from `Exclusive` before and after a step and from
`OneClientOrTick`: a step changes what one client counts on, or it is a tick, which
gives the lock to nobody; so the lock is never handed over in one step.

`ModelServices_proofs`, from `ModelAssumption`, for any nodes, requests and
versions.  `Carried`: no thread or map holds a version newer than the model, and
a refresh holds none older than its arrival, which gives `RefreshCorrect`.
`SchemaCorrect` is inductive with it.  `Alone`: while a node's fillers have never
overlapped there is at most one, it holds nothing older than the maps, and it
leaves them equal.  `Followed`: a consumed announcement is covered by the map, or
its consumer is about to fetch, or holds an SDL that covers it.  Together they
give `NodeFollows`.

`NamedQueries_proofs`, of `QueryCatalog`, from `CatalogAssumption`.  `StoreIsNewest` ties the store
to the stream.  `FillIsRecent` is the heart of it: what a request is about to put
is as new as whatever its node had consumed when the request queried, so only an
update consumed since, which is what `crossed` records, can be newer.  With
`MapHoldsTexts`, `OffsetInStream` and `MapIsConsumed` (a name not crossed is as new
as everything consumed), `NodesRunTheNewest` follows; `MissingMeansMissing` needs only
`StoreIsNewest` and what a request remembers of its arrival.

`Permissions_proofs`, from `PermissionAssumption`.  `NodeOk` says the same of a
starting thread.  `ToReadOk` and `ReadOk` add the requests: what one has read is as new as
everything its node had consumed when it came, and, as long as the request is
calm, equal to what the store held.  This gives `RevokedStaysRevoked` and
`CalmAnswers`, the latter with the meaning of the union of privileges and filter
sets.

`Resources_proofs`, of `HBaseConnections`, from `HBaseAssumption`, for any number of requests,
rows, pages and any width of int.  The types need two lemmas about the arithmetic
(`AsIntType`, `RowsReadType`).  The strengthening, `CrossedInv` with `FieldInv` and
`OnlyFieldInv`, says that while nothing has
crossed at most one request runs, the connection in the field is the one it
configured, and no other is open.  `RequestsOK` says of each point of a request
which handles it holds and what it has read; it gives `HandlesBack` and, with the
lemma `RowsReadIsThePage` about the two loops of a scan and the int they step over,
`RawScanReadsItsPage`.

`NamedQueries_proofs`, of `QueryRun`, from `StreamAssumption` and `ParametersAssumption`, for any
number of rows, payload size, texts and variables.  `PointOK` says what each
point of the stream implies for the row counter and the array (at `send` and
`last` the array is not empty; at `next` an empty array means that the last
payload was complete), and gives `RowsOnceInOrder` and `ReturnMeansSent`.
`RunUsesTheStream` shows that the composition makes steps of the stream or
leaves it alone, so that `RunSendsItsRows` follows for a whole run.
`ParametersAreSet` is the half of `BoundByName` that is about the setters:
`SetSoFar` says of each parameter that the variables seen so far set it last to
their last value, or that none of them has its name.

`ValuesReachTheirNames` is `BoundByName` itself, for any text and variables.  The
other half is the scanner, against a reading of the text that looks at one
symbol at a time and knows nothing of the scanner's flags.  The scanner looks one
symbol ahead, so it enters and leaves a comment one symbol before the reading
does; `Agrees` says so, and `ModeAgrees` that it stays so unless two comment signs
share a symbol, which is what `Plain` excludes.  The inductive invariant `ScanOK`
adds that what has been written is read as what it was made of (`ScanReads`), that
its placeholders are the references passed so far, each as far left as there are
references before it (`ScanPlaces`), and that the names are theirs (`ScanNames`).

`PreviewShowsWhatRuns` is `PreviewIsExecuted`.  `Shows(s, d)` says that s is the text
with the references in d replaced by their values, by the place in s of each
symbol of the text; a reference and the value it becomes share one.  What the
pattern of a name matches first is then a reference by that name outside d,
since a value is neither a colon nor an identifier (`ShownReference`), and the
replacement adds it to d (`OneReplaced`).  A name has at least as many indexes as
references (`EachHasIndex`), so a setter replaces all of them (`AllReplaced`); a
replacement too many finds nothing.  The inductive invariant `Rendered` says that
the text shown has those references replaced whose name has been set, and
`ShownIsMeant` that with every one replaced it is `Meaning`, by induction from the
end of the text.  It rests on a restriction of the model: a value is one symbol, in
quotes as `format` prints it, and a value whose own text contains `:name`, which
the pattern would find, is not covered.

`Requests_proofs`, of `Mutations`, from `DocumentsAssumption` and `MutationsAssumption`, for
any model, user and document.  `AtWork` comes with the types: while a root field
is at work the shared query type is its own, and so is the request received last
once it is sent.  `Waiting` and `Past` (`TurnsInOrder`): nothing happens before
the document is accepted, and what was received belongs to root fields that have
had their turn. With them `OnlyWhatWasAsked` and `ResultsAreEffects` are
inductive.

`LimitsAreMeant` is `WithinLimits`, for any tree of fields and any limits: the sums
that the visit keeps in one number are what the limits count.  The inductive
invariant `Limited` says that what has been added up for a field is the weight of
those of its children that have been visited, with all that is below them, and
that everything visited is within the limits unless the verdict says otherwise.
It needs the subtrees as sets: a subtree is the field and the subtrees of its
children (`SubtreeSplit`), those of siblings share nothing (`SiblingsApart`), and
weights of sets that share nothing add up (`WeightsAddUp`).

`Requests_proofs`, of `FilterSets`, from `FilterSetAssumption` and
`PopulateAssumption`, for any columns, filter sets of any depth, security and rows.
What a set becomes (`Condition`, `Binds`, `Values`), what it means (`Meant`) and what
is in it (`Within`) are recursive functions on the filter sets; that such a function
exists and obeys its definition is proved from the depth of the sets
(`SetRecursion`, `ConditionIs` and its like), and what is proved of every set is
proved from that of the sets in it (`SetInduct`).

- `SecurityIsKept` and `ShownAreMeant`: the inductive invariant `Followed` says at
  each point what has become of the query that was sent.  The rest is about single
  filter sets: the condition of row security is true of a row exactly if all
  filters of some role are (`RowSecurityTrue`), a set that row security is added
  to is true exactly if both are (`PopulatedTrue`), which gives the first whatever
  the user sent.  For the second, an accepted set without a negated set of one
  part has the condition it means (`MeantIsCondition`), unknown included.
- `ParametersAreInOrder`: a set binds the columns of its condition's placeholders
  (`BindsAreColumns`), and so does the list of all its filters, from which the MULTI
  model takes its values (`ValuesAreColumns`).  The latter needs that the set was
  accepted: of one without an operator and with several parts only the first
  makes a condition.
- `FilterTypesCorrect`: conditions are true, false or unknown of each row.

`Traversals_proofs`, of `BatchJoin`, from `BatchAssumption`, for any schema, table,
batch size, denials and order of the threads.

- `AnswersAreJoins`: the answer of a batch is inductive with `CallsFit`, which
  says that what a load has ready for those it still has to call back is the answer
  to the query they wait for, whether the load sent it or a sibling found its
  future completed.  `MatchedIsTheJoin` says that the rows that match a query by
  the keys of its batch are its own, and a load never changes its queries.  What is
  proved is no more than what the code has: where hash codes clash, the children
  are those of the sibling.
- `NothingIsLeftBehind` needs to know of all loads at once that nothing is
  forgotten.  `WaitedFor`: a load that is not done has an earlier one that waits
  for it, so when the first returns all are done.  `QueueIsKept`: what is queued
  has a load that will dispatch it.  `NoneIsLost`, the heart: as long as nothing has
  failed, each selected field of each object in the answer is given, or waits for
  a query, its own or a sibling's, that is queued or in a load that has not come
  to it, or is about to be called back, or owed by the load that gave the object.
  For each of the four there is a lemma that a step leaves it so or hands it to
  the next.
- `DeniedGivesNothing`: no query asks for a denied field (`AsksAllowed`), so none is
  given (`DeniedUnset`); where children were given, a denied field under them has
  failed the request or is still to be selected (`DeniedFails`), and once all
  loads are done nothing is.
- `BatchTypesCorrect` needs arithmetic: `BatchesAre` says that the batches cut
  from a queue are its consecutive pieces, none empty and none too long.

`Traversals_proofs`, of `TreeAssembly`, from `AssemblyAssumption`, for any nesting of
types, database, hash codes and query.  The inductive invariant `TreeInv` has one
part for each thing the rows are folded into: the statement's rows (`RowsRead`),
the cache (`CacheIs`: the objects of the rows that have been read), the children
(`ChildrenAre`: objects of their path) and the list (`ListIs`: the roots of the rows
that have been read, in order, none of those to come before any).  `HeldAsRead` is
inductive relative to it: a child that is put into a field replaces nothing else,
because the database has one object for it.  `PageOfRoots` needs that the roots of
the joined rows are the roots that match: what a row has on a path is reached
from its root (`RowsReach`), and what is reached is in some row (`ReachedInRows`,
which builds the row).  `PageCutsNoChildren` rests on `Mixed`: of two rows with the
same object on a path, there is a third that is like the one at the path and
below it and like the other elsewhere; so a child that matches under any root
matches under the root that is returned.

`InductionFacts` gives these proofs their inductions.  The induction theorems of the
library take an operator as a parameter, which the installed provers cannot
instantiate.  The same facts about sets and functions can be cited: a non-empty set
of numbers has a least element, and one that is bounded has a greatest (from the
facts about finite sets), a set with 0 and with each successor has all
numbers, and for a step that is a function there is a function that iterates it.
`PathInduct` and `PathRecursion` say it of the paths of a schema, where induction is
the assumption that every path leads to the root, `DepthInduct` and
`DepthRecursion` of a set whose elements have a depth, such as filter sets.

The assumptions on constants say what is so of any input the code can get.
`ParametersAssumption`: an identifier is none of the signs that the scanner looks
for.  `DocumentsAssumption`: fields are numbered in the order of the visit, and
`__typename` has no fields under it.  `BatchAssumption`: 0 stands for the request and
is no object, and no type selects the root again.  `AssemblyAssumption`: paths lead to
the root, a nested field that takes one object finds at most one, and conditions
that a null satisfies are left out.  `FilterSetAssumption`: a filter set is made of
finitely many others, each less deep, those of a set that was sent were sent, and a
list of filter sets is not empty.  `PopulateAssumption` says nothing of the code:
the sets that the constants name include those made of them.

The strengthenings were checked by TLC on the instances of section 3 before they
were proved, except `Rendered`, whose places TLC would have to guess.  Assumed besides the named assumptions: what section 2 calls
external.

The types are a theorem for each of these modules.  The facts `StreamIsMonotone`, `OtherNodesAdvance`,
`LiveLockStays` and `ReplacedStays` are theorems only: the runs check the stronger
refinements (`ImplementsAsyncJob`, `ImplementsLease`) in place of the first three.

Only model-checked: all liveness (`EveryRequestEnds`, `RequestEnds`,
`ExecuteIsAnswered`, `SuccessReachesEveryNode`).  Every safety invariant that a
passing run checks is a theorem.

## 6. Where the code and its words differ

The run `batch_mixed` shows one: README.md line 80 says that "every `Query` object
within a single load call will target the same `Collection`", but sibling objects
are resolved by several threads over one data loader, and the dispatch of one
takes queries for another table that a second has queued.  `SQLBatchParser`
makes the statement from the first query of the batch.  `AnswerIsTheJoin` shows
that only the objects of such a batch are affected.

These were met while modelling and have no run of their own:

| Code | Does | Words |
|---|---|---|
| `RecordLockGet` 119 | the release inherits a WHERE clause that matches any expired lock, so 1 is returned for another process's lock once that has expired too, and it is cleared | `RecordLockRelease` 20: 0 if "lock was expired and acquired by another process" |
| `GraphQLService` 82 | a filler that fetched earlier puts its older SDL over a refreshed one | `GraphQLServlet` 226: "asynchronous call back to update pods" |
| `GraphQLService` 82 | `services` is put before `schemas`: a GET in between answers nothing | `GraphQLServlet` 238: "schema presents in the cache" |
| `GraphQLServlet` 149 | on GraphQL errors a response is built and dropped, the request is never resumed | release notes 1.0.12: exceptions of a data loader are made "available to the user" |
| `Query` 197 | `equals` leaves the join conditions out, and the loader's cache is on (`RecursiveTraversal` 47); the queries of siblings are told apart by identity hash codes only, and on a clash one parent gets the other's children (`AnswerIsTheJoin` allows for it) | `RecursiveTraversal` 190: "Query with unique join conditions. Create a separate query instance to make caching by query possible." |
| `HBaseQuery` 79 | a request replaces the connection of another without closing it | release notes 0.1.75: "properly close the resources" |
| `HBaseQuery` 382 | a scan with a filter on the id returns with its first table open | the same |
| `HBaseQuery` 403 | skip is a page number counted from 1: `limit * (skip - 1)` rows are passed over | README.md 72: "Number of records to skip" |
| `ResultSetStreamUtil` 121 | with a type name the array of rows is not reset, each payload repeats the rows before it and grows | `DataqueryConstants` 97: a payload has 1000 rows |
| `NamedQueryExecutorServiceImpl` 70 | list asks the store only while the map is empty, and then lists what this node happens to know | README.md 35: "list all available query names" |
| `NamedPreparedStatement` 183 | the text shown is made by replacing the first match of `:name`, wherever the name ends and in whatever literal it stands: `:id` is replaced in `:idx`; of a variable given twice the first value is shown and the last executed | README.md 37: "render named query" |
| `FieldComplexityCalculatorImpl` 53 | siblings' sums are compared modulo 1000, so more fields than the limit pass when they pass over it together | the message of line 55: "exceeded max of" selected fields |
| `GraphQLService` 80 | the instrumentation compares the root fields' sum with the total, and stops documents that `calculate` let pass field by field | `GraphQLService` 78: "this value is not actually is used" |
| `SQLQueryParser` 63, 73, 77 | a filter set of one part returns before its negation is looked at | doc/architecture.md 115: `not: Boolean` |

What no words contradict, and a reader should know: a job that fails after its
timeout is recorded nowhere and looks unfinished for ever (the reverse of
`UnfinishedMeansFailed`); `preview()` loses its connection when a variable is
missing (`LeakOnlyWhenBindingFails` says that this is the only way); the
permission query at start may overwrite a newer document, which `putIfAbsent`
would avoid; the MULTI model adds no row security; of two children in a list with
equal hash codes one is lost (`HeldAsRead` allows for it); with OR between a
root's condition and a nested one, a child that several roots share may hold what
only one of them asked for; a sort by a field named `id` that is not the key gets no
second sort by the key (`SQLSimpleParser` 218), so the page is arbitrary among
equal values, which `Before` leaves out; a limit above 1000 is refused before a
statement is made (`Query` 107), one of the ways in which `TreeAssembly!Fails`
ends; in the MULTI model a nested filter set is validated only when its field is
reached, after the root's statement (`RecursiveTraversal` 173), where `FilterSets`
has the SINGLE model's order; a filter of a nested type ignores dotted field names;
an entry of the map of jobs is never removed.  Of mutations: the root fields are
sent without a transaction, those after a failed one as well, and a request with
any error, a document over a limit included, is not answered at all
(`AnswerTellsEffect` says what an answer means, not that there is one).  Of named
parameters: a cast `::type` is taken for a parameter `type`; `/*/` is taken for a
whole comment; a text that ends in `/`, `-`, or in `*` within a comment is refused
with an index out of bounds; a literal `?` shifts the positions of the values; a
variable that the text does not have is refused.  `Plain` and `Tidy` name these
cases in the properties.

## 7. Plan

Done: `NamedQueryJobs` (implementing `AsyncJob`), `RecordLock` (implementing
`Lease`), `ModelServices`, `QueryCatalog`, `Permissions`, `HBaseConnections`,
`QueryRun` with `NamedParameters` and `ResultStream`, `Mutations` with
`FieldComplexity`, `BatchJoin`, `TreeAssembly` and `FilterSets`, each with proofs.

What would come next:

1. `VersionedCache`, an abstract cache whose value never goes back unless a fill
   crossed an update, implemented by `QueryCatalog` and `Permissions`.
2. The relationship names that `SDLRelationshipsUtil` makes unique, against a
   reference definition over bounded models.
3. The response cache, if it is registered.

## 8. Not modelled

SQL and SDL text generation, conversions of scalars, configuration and wiring,
health checks, metrics, logging, the authentication filters and the mocks: they
keep no state that several actors share.  The response cache is written but not
registered.

The JavaScript of the repository, `src/src/main/resources/swagger`, is a vendored
release of Swagger UI with its libraries (jQuery, Backbone, Handlebars, marked) and
translations, unchanged, that serves the pages of the API's documentation.  It is
third-party code and holds none of the program's logic, which is Java: no module
models it and no definition is mapped to it.  A count of covered lines that
looks at JavaScript alone says nothing of this project.

`PROJECT.json` lists every part with its status, and every hazard found so far with
the properties that cover it or the reason why none does.
