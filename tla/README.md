# DevOps-Python-tools: a TLA+ verification development

This directory holds TLA+ specifications of the programs of
[DevOps-Python-tools](../src/README.md) that have control flow worth getting
right: several threads or several actors, files and repositories that change
while they are looked at, state that survives from one item to the next, exit
codes that other programs rely on. Each specification is model-checked with TLC
on small instances; theorems checked by TLAPS hold for every value of the
constants.

    tlc -workers 2 -config MCActiveServer.cfg MCActiveServer
    tlapm ActiveServerProofs.tla

The theorems about a module `X` are in `XProofs`, which extends `X`; those about
`DuplicateFiles`, `Validators` and `FileSequence`, which share their base
modules, are together in `FileProgramsProofs`. The inductive invariants they
rest on are defined at the end of `X`, so that TLC can check them too.

Paths like `find_active_server.py:309` are relative to `src/`. `PROJECT.json`
maps every definition that models code to the lines it models, and lists the
runs, the theorems, the hazards and one mutation per property that makes TLC
find the property violated.

## 1. Inventory

The repository is a collection of more than a hundred command line programs. Nearly all
of them derive from a class `CLI` in `pylib` (a git submodule, not part of this
tree): `CLI.main()` parses the options, installs an alarm of `--timeout`
seconds that ends the process with exit code 3, calls `process_args()` and
`run()`, and maps exceptions to exit codes. `die()` and `usage()` raise
`SystemExit` with 2 and 3. What the modules need of it is stated in their
actions and marked `external` where it is a definition of its own.

The programs do not call each other; their actors are threads, the servers they
talk to, other runs of the same program, and whoever else works on the same
files. Components, in the order of how much control they have:

| component | state | operations | what is hard | what makes it correct |
|---|---|---|---|---|
| `find_active_server.py` and the 17 `find_active_*` programs on top of it | presets and options, host list, thread pool and its task queue, result queue, main thread, alarm | launch a check per host, check (http, ping, socket), put the result, collect until one is truthy, finish | completion order, checks that raise or kill their worker, a `queue.get()` without timeout, the alarm | the server named qualifies; nobody is named only when all were refused; preference is lost only so far; the run ends |
| `find_duplicate_files.py` | what was met so far by name, size, checksum, capture; duplicate groups; failure flag | one test per method and file, lazy hashing with backtracking, report | state carried from file to file, short-circuiting, files that vanish, exceptions half way | the report is exact or sound, exit 0 means no duplicates |
| `ambari_trigger_service_checks.py` | per run: id list, position, schedule id; at the server: requests, schedules | submit a batch, watch it, cancel what is there | stale lists, other runs and other operations, calls that fail before or after taking effect | only listed checks are aborted, none of them is left, waiting means done |
| `validate_*.py` (12 programs) and the converters between JSON, YAML and XML (6) | arguments, walk, failure flag, what was printed | check arguments, walk, check, print, second readings | files that change between test, check and print; failures that must survive; exclusion at any depth | 0 means all valid, no false alarms, nothing invalid printed |
| `dockerfiles_check_git_branches.py`, `dockerfiles_check_git_tags.py` | the clone's checkout, branch list, failure flag, pending exit code | check out, walk, compare versions, put the clone back | failure in the middle of a branch, a clone shared with others, several targets | the clone is put back, 0 means all agree, no false alarms |
| `hive_foreach_table.py`, `hive_tables_*`, `hive_schemas_csv`, `hive_compute_table_stats` and their `impala_*` counterparts (24 programs) | databases and tables still to come, the cursor, what was done and what was passed over | list databases, list tables, a few statements for each table, partitions | tables that go while the loop runs, `--ignore-errors`, a cursor used twice, a lost connection | 0 means every table listed was done, or failed and was to be ignored; the numbers printed are those of the table |
| `travis_last_log.py`, `travis_debug_session.py` | builds and jobs chosen, polls made | choose builds and jobs, print logs, restart a job, poll for an address | variables kept from the previous job, logs of former runs, polling | the newest builds wanted are printed, whole; the address is that of the session in progress; polling ends |
| `hbase_generate_data.py`, `hbase_compact_tables.py`, `hbase_flush_tables.py`, `hbase_show_table_region_ranges.py`, `hbase_table_region_row_distribution.py`, `hbase_table_row_key_distribution.py` | the tables listed, rows sent, regions and the scan | list; drop, create, fill; compact, flush; scan and count | tables and regions that change after they were listed, half done work | only a table of the default name is dropped, no table that was there first gets rows, 0 means all was done, counts are those of their group |
| `ambari_blueprints.py` | files, and the blueprints and clusters at a server | list, save one or all, push, create | check-then-act, a save that is not atomic, lost answers | what is registered is whole; what was saved survives what fails |
| `find_missing_files_in_sequence.py` | paths left, the file in hand, what is missing before it | walk, take the number out of a name, look for the number before it | files that come and go under a search that relies on its neighbours, a walk within a walk, widths of numbers | what is reported is missing, and no gap is left out |
| `anonymize.py` | option set, ordered rule table | close the options, rewrite each line | order of rules | no rule undoes another |
| `git_check_branches_upstream.py`, `timeout.py`, `serf_event_handler.py` | small | one pass each | small | planned as one group |
| HBase load monitors (`hbase_region_requests.py`, `hbase_regionserver_requests.py`, `hbase_regions_*.py`) | the last sample | read counters, print rates | resets of counters | arithmetic and layout |
| Spark, Pig and HDFS scripts, AWS/GCP/Docker registry clients, text filters | none beyond one call | read, convert, print | none to speak of | formats |
| `pylib`, packaging, CI, tests | - | - | - | external, or not part of the programs |

The hazards of the programs, at the lines where they bite, are in
`PROJECT.json` under `hazards`, each with the properties about it.

## 2. The modules

### ServerSelection, ActiveServer, FindActive

`ServerSelection` is the promise without threads: every host gets at most one
verdict, and one decision at most is announced, once: a host whose verdict was
"passed", that all failed, or that time was over.

`ActiveServer` is the program. A host is its position in the list, so `i < j`
means that `i` is preferred.

| variables | code |
|---|---|
| `launched`, `pc`, `got` | `run()` (309), the loop of `collect_results` (312-317) |
| `started`, `hold`, `alive` | the `ThreadPool`: its FIFO task queue, what each worker runs, which threads exist (external, as used at 275 and 306-307) |
| `response` | how the check of a host ended; `Value` makes of it what `check_ping`, `check_socket`, `check_http` return, raise or die of (340-437) |
| `results` | `self.queue`, never shortened; what is in it is `results[got+1..]` |
| `printed`, `answer`, `exit` | `finish()` and the end of `run()` |

`Respond`, `Put` and `Collect` are separate steps, as other threads run between
them. `Respawn` is `multiprocessing.pool` replacing a worker: `die()` in
`check_ping` (385) raises `SystemExit`, which a pool does not catch.
`Alarm` is the handler of `CLI`; a Python 2 main thread blocked in `Queue.get()`
without timeout does not get to run it, which is why `RunEnds` relies on an
alarm under Python 3 only.

`FindActive` extends it by what comes before `run()`: the presets of
`find_active_server.py` and of its 17 subclasses (port, protocol, page, regex,
number of threads, and the options each defines), and what
`validate_protocol_opts` and `validate_misc_opts` make of presets and options.
`Settings(p, o, ...)` is the `conf` that `ActiveServer` runs with, and
`MCActiveServer` checks only settings that some program accepts some options
for.

Abstractions: `https` is checked like `http`, and `--ssl`, which
`add_common_opts` looks at before the options are parsed, is left out; a ping with `--regex` is accepted
by the option check and means nothing more than a ping; that the hosts are
unique after `uniq_list_ordered` is the naming of hosts by position; `--random`
only permutes names.

### FilePrograms, TreeWalks

What the programs that go through files share. `FilePrograms` has the program
counter, the place in the list of what was given, the exit code and the two ways
to set them (`Goto`, `End`); `DuplicateFiles` extends it, and `TreeWalks` does.
`TreeWalks` adds the directories, the files there are at the moment, what is
left to visit and how often others changed something; `Validators` and
`FileSequence` extend it. `Below` is the set of directories below one, itself
among them: the least set that has it and is closed under subdirectories. That
the directories form a tree is assumed nowhere.

### DuplicateFiles

One run over a fixed sequence of visits (`walk`), with the state of
`DuplicateFiles.__init__`. `pc` goes through the tests of `is_file_dup`
(306-336) for the file at hand; `IsFileDupBySize` is both the size test and the
first half of the checksum test, as in the code (354-365); `HashFile` and
`Backtrack` are the two hashings of 380-406, between which the file may vanish;
`NotFound` is an argument that has gone by the time it is come to (303);
`Report` is 203-250 with the exit codes. A checksum is identified with the
contents it was taken of.

Abstractions: symlinks and `.DS_Store` are no part of a walk, since the code
returns for them having done nothing; `RemoveFile` takes only files that occur once
on the walk, because `os.walk` of a second argument would not yield it any more;
contents do not change. Entries under size 0 are left out: no branch reads them.

Behaviour of the code worth knowing, kept in the model: with `--size
--checksum` a third file of one size ends in a `TypeError`
(`set.add(*paths)`, line 363); quiet mode reports basenames for duplicates by
name (209-210) and needs Python 2 (211); a file reached by two overlapping
arguments is reported as its own duplicate by name, size and capture, though
never by checksum.

`files`, `sizes`, `captured` and `hashes` map a key to the paths recorded under
it. A path that is recorded under its size and not hashed yet is in `unhashed`:
the code has a `None` in place of its checksum. A name has one capture at most,
as `re.search` finds one match.

### ServiceChecks

Any number of runs (`Clients`) against one Ambari. A run's steps are its HTTP
calls, since that is where another run comes in between: `Discover`, then either
`GetRequestIds`, `GetContext`/`PutAborted` per id, or `Post` and `Watch`.
`RequestFails` lets any call fail before or after it took effect at the server,
with exit code 2, or 1 where `raise_for_status` (208) raises what nothing catches;
`Alarm` ends a run. `Ambari` (`PostBatchRequest`, `FinishRequest`,
`CloseSchedule`, `OtherRequest`) is external: it does one request of a batch
after the other and may give a batch up, as `parse_scheduled_request` (312-337)
expects. A `--cancel` covers a snapshot: checks requested afterwards run on.

### Validators

The programs have one shape, so there is one module and, for the validators,
twelve records of settings (`Yaml` ... `Multimedia`) for what differs: what
`--print` does, what standard input means, whether an invalid file ends the run,
who opens the file.
`CheckArg` and `CheckPath` are the two loops of `run()`; `Walk` is
`walk()`/`os.walk`; `SkipFile`, `CannotOpen`, `Raises`, `CheckFile` are the
outcomes of `check_file`; `CheckJson`, `OutOfMemory`, `RewindCheckMultirecord`
are validate_json's second attempt at a file; `Reprint` is the second reading of
`validate_ldap_ldif` and the ini validators. `Change` rewrites or removes a file
at any moment. A document is the verdict of its parser as a whole and per line:
the parsers themselves are libraries.

The converters (`JsonToYaml` ... `JsonBulk`) are six more records: they print
what they made of the text they checked and end at the first that cannot be
parsed. `json_docs_to_bulk_multiline` (`CheckBulk`) reads a file twice, too: when
one of its first nine lines is a document, the file is read again line by line,
and otherwise as a whole (`ReadWhole`): in either case it may be another by then.

A walk lists a directory when it comes to it, so a file that was removed before
is not checked, and `os.walk` says nothing of it: a run that ends with 0 has not
checked it. `unlisted` is the history of these files. `ZeroMeansAllValid` allows
for them unless they are arguments themselves; those a run finds gone (exit code
2).

Abstractions: the alarm is left out; hidden directory entries and the name
pattern of `validate_multimedia` are in `Suffixed`, as the suffixes of the
others are; the out-of-memory message that validate_json prints is not counted
as output. Kept: `os.walk` passes over directories that cannot be listed, so
they do not keep a run from ending with 0; an empty first CSV field is an
exception (a document that "raises"); what the ldif and ini validators print
may be newer than what they checked.
Not modelled: `validate_multimedia.py:182` looks for `'Error'` in the output of
`ffmpeg`, which is bytes under Python 3.

### Checkouts

Both programs, `run.tool` telling which. The clone is `refs` (branches or tags),
`head` and `dirty` (changes that keep git from checking anything else out).
`ListBranches` takes down the branch to return to, `Checkout`, `CheckPath`,
`CheckFile` are one branch, `Restore` is the `finally` clause (213-216) with the
exit code that is pending (`code`). `Alarm` and every failing step go through
it. `OtherCheckout`, `OtherDelete`, `OtherEdit` are somebody else.
`CheckDockerfileArgs` and `CheckDockerfileArg` are the pairing of versions with
`ARG` lines, on parsed names (`Info`) and parsed lines: `CheckLine` is the
verdict on one line, and that of a file is the verdict of the first line that
stops the loop.

Verdicts are promised only for a clone in which nobody else checks anything out;
`Restored` likewise. With a detached head the branches program does not go back,
as its comment says (193-196). Branch names are cut at the last `/` (183), so
that `dev/solr-5` is checked out as `solr-5`, which need not exist. A JDK line
after the last version raises an `IndexError`. The statistics are left out, and
finding the root of the clone is external.

### ForeachTable

The 24 Hive and Impala programs. `HivePrograms` gives each the statements it
sends for one table (`steps`) and what its exception handlers cover; an Impala
program is its Hive class with other defaults, which is what
`ImpalaTablesList == HiveTablesList` and the like say.

| definitions | code |
|---|---|
| `ProcessOptions`, `Refused`, `ShowDatabases`, `Finish` | `process_options` and `run` of `hive_foreach_table.py` (132-154), and the `run` of the three programs that have their own |
| `ProcessDatabase`, `NextDatabase`, `ProcessTable` | `process_database` (156-197): `use`, `show tables`, the loop over the tables |
| `PrintTable`, `Use`, `Describe`, `Query`, `Where` | the statements of the `execute` methods |
| `Partitions`, `SkipPartition`, `CountPartition`, `PartitionsDone` | `show partitions` and what is done for each |
| `Fail` | the `except` clauses with `--ignore-errors` |
| `Disconnect`, `DropDatabase`, `DropTable`, `ReplaceTable` | the server and its other users |

`held` is the set of tables nobody has touched since the start: the promises are
about those. A row is the set of its columns that are NULL and its partition.
`foreign` is what the others did, in order.

Kept as the code has it: the cursor that is iterated over is the one the next
statement is executed on; `compute_table_stats` asks for the partitions of a
table that has the name of the database (152, in the Impala program 150);
`hive_tables_null_columns` looks only at rows with some NULL in them, so that the
columns it calls "only NULLs" are those that are NULL wherever any column is,
which is what `LinesAreTrue` says of them (see the disagreements below); the test
whether a query lacks `{db}` never holds (185-186), so that a query with another
name in it ends in a traceback. The result of a statement is read in one step.
A row of `show partitions` is taken to be a key and a value, as
`hive_tables_row_counts.py:179-180` takes it; what a server answers is external.

### TravisTools

Both programs, `run.tool` telling which. `ProcessOptions` is what becomes of
job, repository and argument; `GetBuilds`, `Build`, `GetJob`, `JobsDone` are
`parse_builds` and the loop over the jobs of a build, one request each;
`PrintLog` is `print_job_log`; `LaunchJob`, `Poll`, `GiveUp` are `launch_job` and
`get_ssh_address`. `RequestFails` and `Alarm` can come at any request.
`JobEnds`, `LogMoves`, `Restart`, `BuildStarts` are Travis CI and its other
users; a log remembers which start of the job it is of, so that one left over
from a former debug session can be told apart.

Kept: the job printed is the *last* one that fits, the job debugged the first;
a build without a fitting job is a variable without value (308-309); so is the
address when the timeout is less than four seconds, and the exception logged
when the program is not in a git clone; `travis_debug_session.py` takes a URL
for a repository. Left out: the validation of names and the stripping of
control sequences. `ParseBuilds` picks positions in the listing: those of the
newest builds wanted, as the code sorts by number; `chosen` holds those whose
turn is still to come. Under Python 3, which the first line of both programs
asks for, `req.content` is bytes, and `re.sub` and `split` with a text raise a
`TypeError` (`travis_last_log.py:329`, `travis_debug_session.py:328`): no log that
was fetched is printed and no address found. `RequestFails` lets this happen at
any log; what the properties say of logs and addresses is of Python 2.

### HBaseTables

Six programs that list tables and act on the answer. `GetTables` with
`GenerateRun`, `CompactRun`, `FlushRun`, `RegionsRun`, `KeysRun` is the head of
each `run()`. `DeleteTable`, `CreateTable`, `Families`, `SkewMod`, `Put` are
`hbase_generate_data.py`, row by row; `Work` compacts or flushes one table;
`GetRegions`, `IsTableEnabled`, `Scan`, `PrintCounts` are the region and row key
tools, the scan advancing by one row. `Others` create, drop, disable and split
tables and change rows; `RequestFails` may leave a table dropped half way.

Two variables are history: `lost`, that others dropped the table the run had
created, and `astray`, that a row was sent to a table others made. Between its
look at the list and what it does then the program can be overtaken (174-176).
`OnlyOwnTables` says how far this goes: it drops a table of the default name,
whoever made it, if it was listed and `--drop-table` given; and without
`--use-existing-table` its rows go to a table of others only if these put theirs
in the place of the one it had just created.

A row key is a number; `Encoded` says where the *text* of a key sorts, since
`populate_region_metadata` keeps texts and scans between them. `steady` and
`ever` are the rows that were there throughout the scan, or at any time of it.
`Regions` lists the extents a table's split keys give, in order; a new split is
one more key among them.
Kept: `--skew-percentage 0` divides by zero after the table was created;
rounding in `int(n % (100.0 / skew_pc))` may shift a skewed row by one;
`--drop-table --use-existing-table` does not create the table again; the HBase
shell ends with 0 when a flush failed. Left out: layout, percentages, quartiles.
Under Python 3, which the first line asks for, `bytes(str)` without an encoding is
a `TypeError` (`hbase_generate_data.py:229-232`): the run ends at its first row and
leaves the new table empty. `RequestFails` lets this happen at any row; rows are
sent under Python 2 only.

### Blueprints

Up to `MaxRuns` runs of `ambari_blueprints.py`, one after the other, over the
same server and directory. `Dispatch` is what the options ask for;
`GetBlueprints`, `GetClusters`, `Fetch` are the requests; `Open` and `Write` are
`save()` (416), which empties a file and then fills it: between the two a run may
be cut short by `Alarm`, which leaves the file `Torn` for the next run. A server is
a function from names to documents (`With`, `Without`).
`Read`, `Check`, `Post` are `send_blueprint_file` and `create_cluster`; an answer
may be lost after the server has acted. `Others` add and remove blueprints,
clusters and files. `found`, `kept`, `cut`, `registered` are history. `Suffixed`
is the path `save()` makes of a name (412-413): two names, or a name and `--file`,
that differ in `.json` share a file. An answer that is no JSON (193, 256) ends a
run with 1.

Kept: a blueprint and a cluster of one name share a file; `--strip-config` ends
at the first host group without configurations (271-276); a file without the
section `Blueprints` is warned about and then is a variable without value; that
a blueprint exists already is only warned about. Ambari is external: it refuses
a name it has, and a cluster whose blueprint it does not have.

### FileSequence

`NextPath` is the loop of `run()`; `ProcessDirectory` is one directory of
`process_directory`, with what is left to visit in `todo`; `CheckName`,
`Backfill` (one number of the countdown) and `PrintMissing` are `check_file` and
`determine_missing_file_backfill`. `ComesOrGoes` adds or removes a file. A name is
directory, prefix, number, width and suffix; what is printed is a set, so that
lines printed several times are not told from those printed once. `steady`
and `ever` are the files that were there throughout, or at any time.
`run.locked` are directories that cannot be listed: `os.walk` (178) says nothing
of them, and `glob` finds nothing there. `run.odd` are files of which a `--regex`
takes what is no number, or has too few brackets (205-209): the run ends with an
exception. `Lookalikes` are directories and files without a number whose names
begin like that of a file: `glob` finds those, too.

Every file looks back only to the nearest number that is there, so that a gap
is reported by the file right above it: `MissingAreReported` says that together
they leave none out, provided the ones they rely on are asked for and stay.

Kept: `os.walk` goes into every directory `process_directory` has already called
itself on, so that a file k directories down is checked up to 2^k times, and
one in an excluded directory all the same (178-194); the glob for number 1 finds
10; after an unpadded 9 the name looked for is 09; a prefix with a bracket never
matches its own glob, so that its files are reported missing; exit code 0
whether or not something is missing. `MissingAreReported` therefore speaks of
sequences numbered alike, with prefixes that glob takes literally, in directories
that can be listed; and that no gap is left out is said where nothing else is
called like the files.

## 3. The runs

| run | asks | bounds |
|---|---|---|
| `active_server` | under every interleaving, are the answer, the refusal and the preference right, does the program implement `ServerSelection`, does it end | 3 hosts, 1-2 threads, the settings of every program and option, Python 2 and 3, alarm |
| `duplicate_files` | are the groups sound, with `--no-short-circuit` exact, is 0 clean | 3 files, 3 names, 3 contents (one empty), 14 option settings, one removal, one overlapping walk |
| `service_checks` | does cancelling touch the right requests and does waiting end right | 2 runs, 2 services, a backlog of two, one other request, one failing call |
| `validators` | are exit codes, reads and prints right for every validator, converter and option | 3 files, 2 nested directories, one change |
| `validators_toml_stdin` | *violation*: does invalid standard input ever end with 0 | TOML and CSON programs |
| `checkouts` | is the clone put back, are the exit codes right | 4 branches or tags, 1-2 targets, two foreign actions |
| `foreach_table` | does 0 mean that every table was dealt with, are the numbers those of the table | 2 databases, 5 tables, every program, one foreign action |
| `foreach_table_partitions` | *violation*: is every partition that matches counted | one program, nobody else |
| `travis_tools` | are the right builds printed, whole, is the address live, does polling end | 5 jobs, 3 listings, 3 polls, 3 moves of Travis CI |
| `hbase_tables` | which tables are dropped and filled, does 0 mean all, are counts those of their group | 2 tables, 4 row keys, 6 rows to send, 4 changes |
| `file_sequence` | is what is reported missing, is no gap left out | 10 files in 2 directories, 12 disks, 5 argument lists, 4 exclusions, a locked directory, a lookalike, one change |
| `blueprints` | is what is registered whole, does what was saved survive | 2 runs, 3 names, one foreign change |

**Why these bounds are enough to be interesting.** Two workers and three hosts
give every order of completion, a host that waits for a worker, a worker that
dies while another goes on, and an answer that overtakes; `CpuCount = 1` makes
the default of four threads exceed the bound, so runs have the one or two threads
of `--num-threads` or of the programs that preset two. Three files are what
backtracking takes: a first of a size, a second that triggers it, and a third that
finds both hashed; with three names and two non-empty contents of one size, same
size need not mean same contents. Two runs, one failing call and one foreign
request are what it takes for a list to be stale in every place. A walk with a
directory below another, a file that the walk does not look for and a file named
twice reaches every branch of the validators; one change can fall between any
two steps, and JSON documents include those that are valid as a whole only, line
by line only, with single quotes only and up to a line only. Two foreign actions
let somebody both leave changes and delete the branch to return to. The
warehouse has a table with two partitions of different length, one with the name
of its database, one without rows, one whose queries and one whose description
fail; one drop, replacement or lost connection can fall between any two
statements. Three moves let Travis CI end a job, have it restarted and show the
log of the former run; three polls see an empty log, one of a former run and an
address. Four changes to HBase can drop and create a table again under a run
that has listed it, and split a region and delete and add a row under a scan. Two
runs of `ambari_blueprints.py` are one cut short in a save and one that reads
what it left. The files of the sequences have a gap, a neighbour, a number of
another width, two suffixes and a bracket among them; one change can remove the
file another one relies on, or fill a gap that has been found.

All cfgs have `CHECK_DEADLOCK FALSE`: the programs end, and a terminated run has
no next step. That they do not stop *before* their end is stated where it
matters (`RunEnds`, `EveryHostChecked`, `WatchEnds`, `Terminates`, and
`StarvedOnlyByLostCheck` for safety).

**Fairness.** `ActiveServer`: the main thread and every worker are scheduled
(weak fairness of their steps), and an alarm that is set goes off. A request
that keeps trickling in is never forced to end: the timeout of `requests` bounds
each read only. `ServiceChecks`: weak fairness of each run's own steps, since its
calls are answered or fail; nothing at all is assumed of Ambari or of the alarm.
`TravisTools`: weak fairness of the program's own steps; nothing of Travis CI,
whose moves are bounded in the model but which may also never move at all, nor
of the alarm. The other modules state only safety and have no fairness.

### What disagrees with the documentation

Two runs show a disagreement between the code and what the repository says of
it; `PROJECT.json` quotes both sides.

1. `validate_toml.py` and `validate_cson.py` accept anything on standard input
   (103, 108).
2. `hive_tables_row_counts.py` counts the first matching partition of a table
   and no other (191).

More that was met while modelling, kept in the models as the code has it, without
a run of its own:

- `hbase_table_region_row_distribution.py` scans between the printed texts of
  the region boundaries, not between the boundaries (132): with an unprintable
  boundary rows are counted in another region, twice or not at all.
- `find_missing_files_in_sequence.py` keeps the newlines of the paths it reads
  from standard input (145), so that it finds none of them but a last line that
  has none.
- Under Python 3 `--http --regex` never finds a server: a `str` pattern is
  searched in `bytes`, the exception ends in a result object nobody reads
  (`find_active_server.py:430`); and `find_duplicate_files.py --checksum` ends
  with a traceback as soon as there is something to hash (373).
- `validate_json.py --print` prints the first records of input that turns out
  invalid (126).
- `dockerfiles_check_git_tags.py` leaves a clone that was on a tag on master
  (141).
- `json_docs_to_bulk_multiline.py` looks at single lines before it tries the
  whole document, and ends with 2 after `--continue-on-error` where its help
  says 1 (92); `yaml_to_json.py` does not catch what PyYAML raises.
- A name that is `-` twice, or twice the same file, is converted twice.
- `hive_tables_null_columns.py` (and its Impala twin) reports "columns with only
  NULLs" (19-23, 123) that have values: its query passes over rows without a NULL
  (103-105), so that of a table with the rows `a = NULL` and `a = 1` the column
  `a` is listed. `LinesAreTrue` says what the lines do mean.
- `validate_*.py` end with 0 when a file was removed under a walk before its
  directory was listed, or a directory cannot be listed, without a word of it.
- `travis_last_log.py`, `travis_debug_session.py` and `hbase_generate_data.py`
  ask for Python 3 in their first line and raise a `TypeError` there once they
  have a log to print or a row to send: see section 2.
- The Hive, Travis, HBase and Ambari programs: see "Kept" in section 2.

## 4. What is proved

Eight modules have theorems: for every value of the constants that satisfies the
named assumptions, not only for the instance TLC explores. Each of the proofs goes
the same way: an inductive invariant `IInv`, the facts `Init => IInv` and
`IInv /\ [Next]_vars => IInv'` with one step per action, from them `Invariance`
(`Spec => []IInv`), and from that the properties. `Validators` and `FileSequence`
have these under the names `VInit`, `VNext`, `VIInv`, `ValidatorsInvariance` and
`FSInit`, `FSNext`, `FSIInv`, `SearchInvariance`. None of the properties is
inductive as it stands; what has to be added to it says why it holds. TLC has
checked every `IInv` as an invariant on the instance of the component's run. All
theorems hold for runs of any length: the bounds on what others may do
(`MaxForeign`, `MaxChanges`, ...) are arbitrary numbers.

### ActiveServer

For every number of hosts, every number of threads and every set of options
(`HostsAssumption`, `ConfsAssumption`):

| theorem | states |
|---|---|
| `TypeCorrect` | `Spec => []TypeOK` |
| `AnswerTheorem` | a server that is printed qualified, and 0 means that one was |
| `NobodyTheorem` | exit code 1 only after every host was checked and refused |
| `PreferenceTheorem` | fewer than `--num-threads` better hosts are passed over |
| `StarvationTheorem` | the main thread can be left waiting only by a lost check |
| `Refinement` | `ActiveServer` implements `ServerSelection` |
| `Invariance` | the inductive invariant `IInv` they rest on |

`IInv` is `TypeOK /\ Progress /\ Announced /\ OnePlace /\ BoundedPassing`.
"Nobody" is announced after the
last `get()`, so one must know that the results taken were all falsy
(`Progress`) and, since there are as many of them as hosts and no host has two
(`OnePlace`), that they are the results of *all* hosts: a counting argument
about an injection of a finite set into itself. The preference bound needs to
know where a better host can be when a result is put: not unstarted, as tasks
are taken in order, not yet put, not lost, hence held by one of the *other*
threads (`OnePlace`), of which there are `threads - 1`; `BoundedPassing` keeps
that count for each result as of the moment it was put, and later steps only
shrink the set. Starvation is `OnePlace` with all workers idle. The refinement maps
a host's check to its verdict as soon as the check has ended, so `Respond` is
`Judge`, `Finish` is `Announce`, `Exit` and `Alarm` are `AnnounceNobody` and
`GiveUp`, and all else stutters; that `Exit` may announce "nobody" is again
`NobodyTheorem`.

`FindActive` adds definitions and one assumption on a constant to
`ActiveServer`; the theorems hold for every `Confs`, hence for its settings.

### DuplicateFiles

For any files, names, contents, captures and walks, any number of removals and
every combination of options (`OptionsAssumption`, `FilesAssumption`):

| theorem | states |
|---|---|
| `TypeCorrect` | `Spec => []TypeOK` |
| `GroupsTheorem` | every group reported is part of a group of true duplicates; with nothing skipped and nothing failed it is the whole of it (`GroupsAreRight`) |
| `CleanTheorem` | exit code 0 means that there are no duplicates (`CleanExitMeansNoDuplicates`) |

`IInv` is `TypeOK`, `Phases`, `Sound`, `Complete => Exact`, and that a run ends
with 0 only if nothing failed and nothing was found. For each of the four ways to
compare, the visits so far are grouped by key; `Sound` says that what is
recorded under a key was visited, and that what was found is of a key visited
twice. `Exact` says the converse, and holds only as long as no test was skipped and none
failed (`Complete`): after the first duplicate, short-circuiting leaves tables
incomplete. A run that ends with 0 has found nothing, hence skipped nothing,
hence was exact. Checksums need more, as a file is hashed only when a second one
has its size: a path not hashed yet is alone of its size, or the first of two
whose turn comes before the next file does (`Alone`), and when the checksum that
`IsFileDupByHash` goes on to compare is the first file's, there are only these
two (`Comparing`); so that no pair of equal files is missed by the backtracking.

### Validators

For every validator and converter, any tree of directories, any arguments and
documents, and any number of changes by others (`RunsAssumption`,
`TreeAssumption`, `DocumentsAssumption`, `PathsAssumption`, `BoundAssumption`):

| theorem | states |
|---|---|
| `ValidatorsTypeCorrect` | `VSpec => []VTypeOK` |
| `ZeroTheorem` | nothing is read but what the arguments ask for, and 0 means that all of it was checked and was valid, but for files a walk found removed when it listed their directory (`ZeroMeansAllValid`) |
| `ReasonTheorem` | exit codes 1 and 2 have a reason (`FailureHasReason`) |
| `PrintedTheorem` | nothing invalid is printed, and with 0 all that was checked is (`PrintedWasValid`) |

`VIInv` rests on a balance: everything that an argument behind the program
stands for has been checked, is excluded, was removed before its directory was
listed (`unlisted`), or is stood for by what is left to visit (`Accounted`), and what is left to visit stands for nothing that is not
wanted (`OnlyWanted`). A step of the walk takes one thing off `todo` and puts in
its place what that stands for: `StandsForUnfolds`, proved from `Below` being a
*least* closed set, says that a directory that is entered stands for the files
in it and for what the directories in it stand for, and one that is not for
nothing. So the depth of a tree does not matter.
`ValidSoFar` and `FailedForReason` are the two directions of `self.failed`; a
check that ends the run at once is why both exclude other exit codes.
`Reprinted` and `NotExcluded` carry a file through the two steps of a second
reading, and `PrintedSoFar` has everything checked printed but the file whose
second reading is still to come.

### FileSequence

For any names, directories, exclusions and arguments, with any number of files
that come and go (`NameAssumption`, `SubdirsAssumption`, `ListingsAssumption`,
`SearchesAssumption`, `PathsAssumption`, `BoundAssumption`):

| theorem | states |
|---|---|
| `SearchTypeCorrect` | `FSSpec => []FSTypeOK` |
| `MissingTheorem` | what is reported was not there all the time, and with 0 no gap is left out (`MissingAreReported`) |

`FSIInv` adds `TodoIsItems`, `AbsentOnly`, `AllCovered` and `CoveredAtHand`. The
countdown from one file is followed by `CoveredAtHand`: every number it has
passed is in `missing_files`, or there was a file between it and the one at hand
where the countdown stopped. `AllCovered` says of each file asked for that it is
still to come, or that its countdown is done; that it still comes when a
directory is replaced by its files and directories is `BelowUnfolds`, the lemma
the validators use. No single file has reported all gaps below it, since it stops at the first
one it meets. At the end one takes, for a number that no file has, the
least numbered file of the sequence above it (`LeastNumber`): there is nothing
between the two, so the countdown of that file has reported the number.

### ServiceChecks

For any number of runs at the same time, any lists of services and any backlog
(`BoundsAssumption`, `BacklogAssumption`, `JobsAssumption`), with Ambari free to
do its requests in any way:

| theorem | states |
|---|---|
| `TypeCorrect` | `Spec => []TypeOK` |
| `CancelTouchesNothingElse` | what is aborted is a service check some `--cancel` listed (`OnlyListedChecksAborted`) |
| `CancelIsComplete` | no check a run has come to is left pending, and one that ended with 0 came to all of its list (`NoneLeftPending`) |
| `WaitTheorem` | a run that waited and ended with 0 did so after all checks of its own batch had ended (`WaitMeansDone`) |

`IInv` adds `Phases`, `LookedAt` and `OwnSchedule` to the three properties. A run
sends its `PUT` in a step of its own, after the answer that made it do so:
`LookedAt` says that what it saw cannot have changed since, as a request keeps
its context. `OwnSchedule` says that no run can have the id of another run's
schedule, and that Ambari calls none completed before its requests have ended.
That the *other* runs, which work on the same lists, disturb none of it is a
lemma per property about growing sequences of requests and schedules.

### TravisTools

For any jobs, listings, options and limits (`RunsAssumption`,
`TravisAssumption`, `BoundsAssumption`; of the logs it is assumed that each is
the log of some start of its job):

| theorem | states |
|---|---|
| `TypeCorrect` | `Spec => []TypeOK` |
| `PicksTheNewest` | `ParseBuilds` returns as many as asked for, or all that qualify, and none that is left out is newer |
| `NewestTheorem` | what was printed are the newest builds wanted, in order (`NewestWanted`) |
| `FailedLogTheorem` | with `--failed`, a log printed is the whole one of a run that failed, or that of a run started after the job was looked at (`FailedLogIsWhole`) |
| `AddressTheorem` | the address `ssh` is given is that of the session in progress (`AddressIsLive`) |

`IInv` adds `Phases`, `InOrder` and `KeptHadFailed`. `InOrder` has the builds
already printed as those wanted that are not in `chosen` any more, each newer than any that
is; at the end `chosen` is empty, so these are all. `KeptHadFailed` bridges the two
requests between which a failed job can be restarted: if it runs again, then
with a later start than the log is of.

### Checkouts

For any refs, trees, targets and versions, and any number of foreign actions
(`RefsAssumption`, `InfoAssumption`, `TreesAssumption`, `RunsAssumption`,
`BoundAssumption`):

| theorem | states |
|---|---|
| `TypeCorrect` | `Spec => []TypeOK` |
| `RestoredTheorem` | a clone that was on a branch is put back, however the run ends, unless git refuses (`Restored`) |
| `VerdictTheorem` | 0 means that every version agrees, and exit code 2 has a reason (`VerdictIsRight`) |

`IInv` adds `Phases`, `Whereabouts` (what is checked out at each point, and that
the branch to return to is the one the run began with), `HasReason`, and `Checked`
(all files of the targets and branches left behind are in order, as long as
nothing was reported). The verdict on one file is proved of `CheckDockerfileArg`
for files of any length: the first line that stops the loop is the least number
of a nonempty set of line numbers, and all lines before it passed; so a file that
passes has its `ARG` lines aligned with the versions of the name, one by one.

### ForeachTable

For any warehouse, any of the 24 programs and any options (`RunsAssumption`,
`BoundAssumption`, and `WarehouseAssumption`: a row is in a partition its table
has, and no database is named `None`):

| theorem | states |
|---|---|
| `TypeCorrect` | `Spec => []TypeOK` |
| `ZeroTheorem` | 0 means that every table selected was done, or passed over with a reason (`ZeroMeansAll`) |
| `LinesTheorem` | the numbers printed are those of their table; of the columns listed for NULLs, what the query makes of them (`LinesAreTrue`) |

Both are about the tables nobody touched. `IInv` adds `Phases`, `Accounted` and
`Remembered`. `Accounted` follows every such table through the two loops: it is
still to come, or the one at hand, or done, or passed over with a reason.
`Remembered` is what the third statement for a table relies on from the second:
the columns described, and the partitions listed, are still the table's. Counts of rows are
cardinalities of sets of positions in a sequence, for tables of any length.

### HBaseTables

For any finite set of row keys, any tables, regions and numbers of rows
(`TablesAssumption`, `RunsAssumption`), with any text ordering of the keys:

| theorem | states |
|---|---|
| `TypeCorrect` | `Spec => []TypeOK` |
| `OwnTablesTheorem` | only a table of the default name is dropped, and only when asked to; unless told to use an existing table, a run sends no row to one others made, if they did not drop its own and put theirs in its place (`OnlyOwnTables`) |
| `ZeroTheorem` | 0 means that every table listed and matching was dealt with, or every row sent, with the share of skewed ones asked for (`ZeroMeansAll`) |
| `CountsTheorem` | with printable boundaries the counts are those of their regions or key prefixes (`PrintableCountsAreOfTheirGroup`) |

`IInv` adds `Phases`, `Remaining`, `EvenlySkewed`, `Adjacent` and
`CountedSoFar`. The share of skewed rows is a statement about an average; what is
inductive is that after every row the skewed ones are as many as the multiples
of `100 / skew_pc` so far, give or take the one that rounding made late. The scan
is right because the regions are adjacent, because every row there throughout is
either counted or still ahead of the scan (`Passed`), and because what is
counted in a region is in its range.

### Blueprints

For any names, documents, files and any number of runs (`ServerAssumption`,
`FilesAssumption`, `RunsAssumption`, `BoundsAssumption`):

| theorem | states |
|---|---|
| `TypeCorrect` | `Spec => []TypeOK` |
| `RegisteredTheorem` | what is registered is a whole document, under its own name (`RegisteredIsWhole`) |
| `SavedTheorem` | a file is torn only while it is written or after a run was cut short there, and a run that ended with 0 has saved all it found (`SavedIsWhole`) |

`IInv` adds `Phases` and `SavedSoFar`: what is not to be saved any more is in its
file, unless that was removed, or holds the other document of its name (a
blueprint and a cluster can share a file), or is being written again. At the end
nothing is to be saved any more.

### Only model-checked

- Liveness: `RunEnds`, `EveryHostChecked`, `WatchEnds`, `Terminates`. TLAPS does
  not reason about fairness here. Every safety property a passing run checks
  is a theorem.
- The two runs that find a violation.

## 5. Plan

Modules still to write, most important first.

1. `git_check_branches_upstream.py` beside Checkouts.
2. Rules over lines, as functions checked against a reference definition: ini,
   CSV and the option closure of `anonymize.py`.
3. `timeout.py` and `serf_event_handler.py`.
4. The HBase load monitors, if only for counters that are reset between two
   samples.

The refinement of `ServerSelection` is the only one
there is; a promise stated as a specification of its own would suit `Blueprints`
(a store whose documents are whole or not there at all).

## 6. Not modelled, and why

- `pylib` (option parsing, logging, validation of option values): not in this
  repository; its exit codes and its alarm are in the actions.
- Parsers, hash functions, `requests`, `git`, `multiprocessing.pool`, Hive,
  HBase, Travis CI, Ambari: external; modelled as far as the programs see them.
- One-call clients (AWS, GCP, Docker registry, the HBase load monitors), Spark,
  Pig and HDFS scripts and text filters: input, one library call, output; their
  correctness is one of formats.
- `anonymize.py`, `git_check_branches_upstream.py`, `timeout.py`,
  `serf_event_handler.py`: see the plan.
- Wording, colours, statistics and logging, except where a property is about
  what is printed.
