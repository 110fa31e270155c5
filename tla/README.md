# Puff in TLA+

Puff follows the ash of a volcanic eruption. It releases particles over the
volcano, moves them through winds read from netCDF files with some random
diffusion, lets them fall out on the terrain, writes the cloud to files at
intervals, can count the ash in the cells of a grid, averaged over repeated
runs, and can add up what flights through that ash are exposed to. Users reach
it through a web interface with a small server of its own. This directory models
the parts that decide which particle moves when, what is written, and from which
data, and those where processes meet. TLC checks the modules on small instances;
TLAPS proves their safety properties for every value of the constants: all that
the runs check but one.

Sources are named as in `PROJECT.json`: `src/` is the root of the repository,
`src/src/` holds the program, `src/web/` the web interface. A bare name such as
`ash.C` is in `src/src/`.

Contents: 1 the system, 2 the modules, 3 the runs, 4 the proofs, 5 where code
and documentation disagree, 6 what is not modelled, 7 the plan.

## 1. The system

### Parts and how they meet

```
 client --> mini_httpd --fork--> handler --exec--> login.pl, runParams.pl
                                    |                        |
                               interposers        session and run directories
                                                             |
 main (puff.C) -- parse_options, resource file, volcano list <+ (runs puff)
   |
   +- make_winds, once -> Atmosphere: Grids U, V, T, Z <- PuffRC, Grid::read_cdf
   |
   +- run_puff:  for each pass (-repeat)
        |  make_ash ------> Ash: restart file, cloud file (class Cloud), new
        |                   particles: site, column, horiz_spread, init_size, init_age
        |  for each tick
        |    for each particle
        |       winds at it ----> Grid::nnint, fg_locate
        |       ground ---------> Dem
        |       out of bounds --> Atmosphere::contains...
        |    write_ash, when due
        |       Ash::write -----> Ash::quicksort, a netCDF file
        |       Ash::stashData -> the stash
        |
        +- Ash::writeGriddedData: the stash -> a grid
        |     averageGriddedData: this pass into the averages
        |
   +- Planes: readPlanesFile, calculateExposure over the averages, once
```

The program itself runs in one thread. What makes it hard is not concurrency
but long loops with exits in several places, flags and counters updated in two
classes, two clocks that must agree, static variables shared by objects, data
indexed in one order and stored in another, and results that a later pass
builds on. Others take part at three places: forecasts arrive in the directory
make_winds reads from, requests of one web session work on one directory tree,
and the server's processes are joined by pipes, a socket and signals.

| Part | State | Operations | What makes it correct |
|---|---|---|---|
| simulation loop (`puff.C`, `ash.C`) | clock_t, printOut_t, repeat_count, EarlyEndOfSimulation; flags, start time and place of every particle; numGrounded, numOutOfBounds; the stash and its clock; the files | run_puff, make_timevars, make_ash, write_ash; Ash::initialize, ground, outOfBounds, stashData, clearStash | the counters count each stopped particle once; the early end comes exactly when the last particle stops and never in a repeat run; dumps are on time and their stash records alike; particles move once per tick from birth to stop |
| initial ash (`puff.C`, `ash.C`) | places, heights, sizes and start times of the particles | init_site, init_site_custom, the columns, horiz_spread, init_size, init_age | what a file brought is left alone, every new particle gets each value once, the classes of -phiDist are filled as asked |
| cloud files (`cloud.C`) | outline, elevation points, the cloud as far as it is filled | validRegion, fill, random walks | no outline that crosses itself; ash on one side of the outline only |
| particle order (`ash.C`) | Particle::order, a copy of the keys, a stack of ranges | quicksort | order is a permutation, keys follow it, ranges are sorted, scans and stack stay in their arrays |
| atmosphere, resource file (`atmosphere.C`, `rcfile.C`) | the Grids U, V, T, Z; the masks of each model | make_winds, read_uni, PtoH, loadResources, mostRecentFile | all grids come of one forecast run that reaches the end date, and their levels are heights |
| wind time window (`libsrc/netcdf_io.C`, `libsrc/uniGrid.C`) | the times of a grid, the window, the record each was read from | Grid::read_cdf, shellsort | sorted, nothing lost, the window covers the run, data belong to their times |
| wind lookup (`libsrc/vspline.C`) | static indices, one pair per dimension, for all grids | Grid::nnint, fg_locate | the neighbours are inside the array and enclose the coordinate |
| grid library (`libsrc/`) | values, coordinates, attributes | hybrid levels, patch_line, packed files | values stay with their coordinates |
| terrain (`dem.C`) | the tiles, which exist and are loaded; a static index, the array of tiles met, static sizes | initialize, setResolution, tileNumber, readTile, elevation | the tile found holds the point, the array does not overflow, and the four data with their weights are those around the point |
| concentration grid (`ash.C`) | box, origin, sizes, flat arrays of counts, averages | writeGriddedData, averageGriddedData | each cell holds the copies inside it, averages are means of the passes |
| plane exposure (`planes.C`) | flights, the averages | readPlanesFile, calculateExposure, abs_conc | a flight is given the concentrations of the cells it passes |
| web interface (`web/login.pl.in`, `runParams.pl.in`) | the session directories and, in them, a directory per run | login, process_form, delete_previous | a session is opened once; a run has its directory for itself, one that says it failed leaves nothing behind, a successful one is kept |
| web server (`web/mini_httpd/mini_httpd.c`) | the flag of SIGHUP, children, per request the socket and two pipes | main, handle_chld, handle_request, do_cgi, the two interposers, alarms | one whole answer per request, bodies arrive whole, every process ends and is reaped |
| options, volcano list | arguments, the list | parse_options, volc_utils | a usable set, or a refusal |
| ashdump, pp2nc, ashxp, perl tools | none that lasts | read, convert, plot | output only |

`PROJECT.json` lists all parts with the reason for those left out, and all
hazards with their lines.

### What is hard to test

* The body of the particle loop ends by three ways (`continue` for ash grounded
  below the grid in the global branch, the ground and bounds tests, falling
  through) and all set or reset the early-end flag. The order matters: ground
  before bounds, and the repeat guard last (`puff.C:388-440`).
* Time steps, save intervals, run lengths and eruption lengths need not divide
  each other; the corrections are made in two places (`puff_options.C:176`,
  `puff.C:700-760`).
* The stash keeps its own clock and is emptied by make_ash; averages are
  allocated once, so passes have to agree in records and in the grid box.
* Six steps give new particles their values, each with bounds of its own.
* The sort copies double keys into arrays of which single values pass through
  floats; its inner scans have no bound but sentinels.
* The lookup of the winds keeps its upper indices in static variables; the value
  taken above the grid is the one the *previous* call, perhaps of another grid,
  left.
* Times are sorted and cut, then looked up again by value in the unsorted file.
* The files of u, v, T and z are chosen one after the other, in a directory that
  changes meanwhile, and each grid is converted to heights on its own.
* Two index formulas address the same grid, one with a vertical dimension, and a
  third finds the cells again for a flight.
* A run directory is named by one system call and made by another, with no lock.
* Up to three processes and a program block on two pipes and a socket, and one
  signal may stand for several children.

## 2. The modules

| Module | Stands for | Used by |
|---|---|---|
| `AshSim` | the simulation loop | `MCAshSim` (values), `AshProofs` |
| `AshRun` | what the loop promises: the abstract run | `AshSim` (as `Run`), `AshProofs` |
| `CloudFill`, `InitialAsh` | class Cloud; make_ash (EXTENDS the former) | `MCInitialAsh`, `AshProofs` |
| `AshSort` | Ash::quicksort | `MCAshSort`, `AshSortProofs` |
| `WindSetup` | make_winds with PuffRC | `MCWindSetup`, `WindSetupProofs` |
| `TimeWindow` | read_cdf for the time dimension, shellsort | `MCTimeWindow`, `WindGridProofs` |
| `WindLookup` | nnint and fg_locate for one dimension | `MCWindLookup`, `WindGridProofs` |
| `DemTiles` | class Dem | `MCDemTiles`, `DemTilesProofs` |
| `ConcGrid` | writeGriddedData, averageGriddedData | `Planes`, `ConcGridProofs` |
| `Planes` | class Planes, composed with `ConcGrid` | `MCConcGrid`, `ConcGridProofs` |
| `WebRuns` | login.pl and runParams.pl | `MCWebRuns`, `WebRunsProofs` |
| `MiniHttpd` | the web server, its handlers and interposers | `MCMiniHttpd`, `MiniHttpdProofs` |

Conventions. Variables and operators keep the names of the code where TLA+
allows. Each module ends in a list of properties; its type invariant is
`TypeOK`. InitialAsh and WindLookup name their parts differently (`MakeInit`,
`MakeSpec`, `LookupInit`, `LookupSpec`, ...), so that one proof module can
extend them beside another module. A definition with a suffix that nothing uses
(`OutOfBoundsAlways`, `ColumnFlat`, `CellPacked`, ...) is a plausible mistake in
the operation it is named after: `PROJECT.json` says which property notices it
when it stands in for the right one. `Terminated` and `Returned` are the stutter
of a program that has ended, so that a deadlock would be a state the code leaves
in no way. Reads the language leaves undefined are choices (`GoesUp`,
`GetIndex`) or end in a state of their own (`RunOff` to "wild", `EmptyStash` to
"crashed", "undefined").

### AshSim and AshRun

One step is the top of a pass (`BeginPass`, or `Reject`), one particle of the
inner loop (`MoveParticle`, `PassOver`), the rest of a tick (`EndTick`, or
`OutputFails`), or the end of a pass (`EndPass`, or `EmptyStash`).

| Model | Code |
|---|---|
| `runHours_t`, `saveHours_t`, ... | parse_options, then make_timevars |
| `Fresh`, `BeginPass` | Ash::initialize, make_ash with the initial dump, Ash::read and init_age |
| `MoveParticle` | the loop body; `Ground` and `OutOfBounds` are the two methods, on flags and counters of one particle |
| `Leaves`, `Clamp`, `skip` | the bounds tests: global and regional branch, and the `continue` |
| `RepeatGuard` | the last statement of the body |
| `EndTick` | the save interval, write_ash, the clocks and the loop test |
| `Stashed`, `Marked` | Ash::stashData |
| `EndPass` | writeGriddedData as far as the loop sees it, and the repeat test |
| `files`, `FileName` | Ash::write's files, named to the minute with the pass number |

Winds, diffusion and terrain decide only where a particle lands. A move is
therefore any of nine landings with respect to the grid (within it, beyond its
west face, outside elsewhere; below, at or above its levels), and hitting the
ground is a choice. In the global branch x and y are wrapped, and where that
leaves a particle is left open ("around"): most are inside again, but one
between xMax and 360 degrees is wrapped there and back, and one that has gone
over the pole may be nearer to it than the last row. So with global winds
`MovedInside` speaks of the height only. Times are integers in an arbitrary
unit; `Minute` is the resolution of file names in that unit. A name ends in the
number of the pass, which its buffer of four characters always holds, since
-repeat is refused above 999 (`puff_options.C:604`). `loaded`, `moves` and
`dumps` are history variables no action reads.

A time step of zero is accepted by make_timevars and the clock then never
advances: `TimeAssumption` excludes it, and says so.

The first record of the stash is marked, not the last one pushed: `Stashed`
does what the code does (`ash.C:1122`).

`AshRun` is the run without particles' places, counters or flags: a phase, the
clock, the set of particles that still move, which only shrinks, and the time of
the last save. A tick ends the pass after the end date, or when nothing moves;
the set of moving particles must be empty for an early end, and an empty set must
bring one when `Punctual`. AshSim implements it with

| AshRun | AshSim |
|---|---|
| `phase`, `now`, `moving`, `saved` | `Phase`, `clock`, `{i : ~Stopped(i)}`, `clock - printOut` |
| `EndsEarly` (may a pass end early) | `Repeat <= 0 \/ Global`: the `continue` passes over the repeat guard |
| `Punctual` (must it) | `Repeat <= 0 /\ Restart # "ash"`: the stopped particles of an ash file are not counted |

### InitialAsh and CloudFill

Each step of make_ash is an action with the loop bounds of the code: `ReadAsh`,
`ReadCloud` and `LoadCloud`, `Site`, `Column`, `SpreadAll` and `Spread`,
`NormalSizes`, `SizeClass` and `SizeRest`, `Age`. A value is the name of the
step it comes from, so that `EachItsOwn` can say which step should have been the
last to write it; a size drawn by -phiDist is the number of its class. A class
has the mass it was given and how many particles make a unit of mass (the code
divides by the cube of the diameter), and `percent`, the shares by number that
`ByNumber` makes of them, is chosen where it is first read; a share is kept as a
fraction of the sum, so the two normalisations change nothing. `CloudFill` has
the checks of the outline and of the elevation points (`Build`), and the random
walk, whose steps are those the code's radius allows on an integer grid
(`StartWalk`, `Wander`, `EndWalk`); slopes are fractions, so nothing is rounded,
while in the code the ends, slope and intercept of a side are floats
(`cloud.h:26-28`), so that whether sides that just touch cross is decided by
rounding there. Heights are left out but for what looking one up does: it sorts
the elevation points, and the next walk starts from that order.

### AshSort

`Load` copies the keys and starts a sort; `StartInsertion`, `Insert` and `Pop`
are the insertion branch, `StartPartition` (median of three), `Exchange` and
`Place` the partition. The two inner scans are one step each: `UpEndsAt` and
`DownEndsAt` say where they stop, and `RunOff` is taken when there is no such
place. `Float` is the rounding of a key to float. The constants 100, 20 and 20
of the code are `Small`, `Share` and `MinStack`, so that five particles can
reach every branch. `Protocol` is `-sorted`: for each file, once, or never.

The third comparison of the median of three, `arr[l] > arr[l]+1`, is translated
as it is written.

### WindSetup

`ReadU`, `ReadV`, `SkipT` or `ReadT`, then `InMeters` or `Convert`, are
make_winds; `StopIfMissing` and `StopIfUnread` are its failures (a variable that
is not in its file ends the program in the netCDF library, since NcError is
fatal), and `Arrive` may put a file of a newer run into the directory before any
of them. `Taken` is what loadResources remembers after each pair of a line, and
`MostRecent` the search of PuffRC, which compares names as text (`Name`). A grid
remembers its file, whether it has data, the unit its levels claim and what they
are. A file has records at certain hours of its run, and `Window` is what read_cdf
keeps of them (TimeWindow has the searches). `ByGeopotential` is PtoH with its four
tests of the geopotential (`Fits`: shape, number of records, run, unit; it asks how
many records there are, not at which times) and the units it knows, `ByFormula`
the standard atmosphere. `End` includes wind_create_W, which takes the components
of v with the indices of u, in space and in time: what that leaves undefined is
an end of its own.

### TimeWindow and WindLookup

`NextGap`, `Compare`, `EndSweep` are shellsort; `FirstIndex`, `SecondIndex` and
`Cut` find the window, `ShiftDown` moves it to the front of its own array, one
value per step, and `ReadRecord` reads the data of each. `Float` is the
conversion of a time of the file to the float array, `Clock` the product that
makes it comparable with the run. A time that no record of the file has (it was
rounded) is looked up with result -1; which record the library then reads is a
choice.

A lookup is one dimension of one call, since dimensions do not depend on each
other: `Call`, then `Bisect` steps, then `Clamp`, which sets the static
indices. The dimension FRTIME clamps to the last value, all others to the value
at the index the last call left; so there are two dimension names. Reading one
past the values (possible in the bisection, whose upper bound is `Size + 1`)
yields either outcome of the comparison. Grids have two values or more in a
dimension, as wind grids do.

### ConcGrid and Planes

A pass is `MakeGrid` (meridian, limits, kept box, origin, sizes), `Count` for
each copy of the stash, and `Average`. The stash of the next pass is any of
`Stashes`. `conc` and `avg` are functions on the flat index the code computes
(`Cell`), one for airborne ash and one for fallout. The first pass makes the grid
from its limits and keeps them in argument.gridBox as a string: `Printed` is its
`"%f"`, so a later pass rounds to cells what was rounded to decimals before. Where
that changes the grid, averageGriddedData uses memory outside the averages of the
first pass (`Beyond`, `AverageBeyond`, and "outside") or puts cells at the place of
others. `home` is the grid of the first pass and the box it came from, a history
variable. `calculateExposure` follows
the last pass, on the same variables: `Flights` groups the lines of the file,
`Adjusted` and `Covered` are the tests of abs_conc, `cIdx` its index.

Abstractions: positions are integers, a unit being what a float resolves, and
`Decimal` of them the last decimal printed; counts stand for masses and mean
sizes, which are added at the same index in the same branch and averaged with
the same weights, except that with cells of more than half a degree
(`ash.C:1177-1183`) no mass is added (`ash.C:1310`) and all absolute
concentrations stay zero; the rebinning of -gridLevels is off; a box of the user
has its limits in order; all passes have the same number of records, which
follows from AshSim's `RepeatRunsFull` and `StashFollowsDumps` (dumps depend on
nothing but the clocks) on regional winds. With global winds a pass may end
early (`puff.C:410`, section 5), with fewer records than the first. Averages are
kept as integers over the common denominator `den`, so the running mean is
exact; exposures are twice the sums with the same denominator.

A place inside the last cell of a dimension counts as outside for abs_conc, so a
grid with one level gives an exposure only on its very value. Where a grid has
one value in a dimension, or one record, the step is read past the end of the
array (`planes.C:347-350`): the report is then "undefined".

### DemTiles

One step is one call of elevation: `NoTile` where it answers 0, `OnTile` where it
interpolates, `Overrun` where tileNumber writes behind its array. Before that
`SetResolution`. The headers are constants, and `FromGtopo30`, `FromDted0` and
`FromNed` say what each format makes of its corner. `ans` is the call's result
before the arithmetic: the tile, the four indices of data, and the weights times
the step, so that they are integers. `xsize` and `ysize` are the static constants
of elevation, which the first tile used sets for good. `Unread` is the one way in
which readTile of a sound file ends the program: NED data at a reduced
resolution, of which the rest is left unread. An unreadable data file makes the
tile cease to exist, while the call that met it still answers from the tile.
`Interpolated` compares the four indices with the place each datum has in the file
(`DatumAt`), in each order of the data the source speaks of (`Orders`). The
entry tile[ntiles], which the search reads after a hit on a tile over the
meridian, decides nothing (see the head of the module).

### WebRuns

The processes are requests; what they share is `sessions` and `dirs`, and each
system call on the tree is an action: the test for a session and the mkdir that
follows it, the listing that gives the next number (`NameRun`), the mkdir of the
run, the opening of the log, a file puff writes (`Dump`), its end, the
removal after a failure, `DeletePrevious`. rm -r alone is one step, though it makes
many calls. The server's alarm, or a user who leaves, may `Abort` a script at any
point. Puff may fail at any time too; the script takes only a line with "ERROR:"
for a failure, so that the end is "failed" or, without such a line, "unnoticed":
puff without its resources (`puff.C:147-151`), a variable that is not in its file,
a crash, a shell that does not start. A directory
holds who wrote its log and whose output is in it, 0 standing for a run from
before. `InOrder` is glob's order of "X1", "X10", "X2".

### MiniHttpd

Per connection there are a client, a handler that may become the CGI program,
and up to two interposers; the main process and its signals are shared. Every
call that can block is an action, guarded by the room or the data it waits for
and by who still holds the other end. Data are counted in units (a unit of
headers, units of body). `HandleChld` reaps all children that have ended, on a
signal that may stand for several; `Hup` is SIGHUP with the flag the main loop
tests. Re-opening the log (`Top`) and clearing the flag (`Clear`) are two steps;
`due` says whether a SIGHUP waits for the log to be re-opened or was "lost",
that is cleared without it, and `lag` counts the connections accepted since.
`WriteHeaders` writes its few bytes whole, also when O_NDELAY is set
(`mini_httpd.c:2018-2021`): the socket is empty then. `ReadTimeout` and
`WriteTimeout` are the alarms. `raced` marks a write of the output interposer
that falls between `SetNdelay` and `ClearNdelay`.

## 3. The runs

| Run | Instance | What it shows |
|---|---|---|
| AshGlobal | 3 particles, global winds, five ticks, interval of one and a half steps, no initial dump | `OneMovePerTick`, `NoOverwrite`, `Termination`, and `ImplementsRun`: the loop is a run of AshRun, so that counters, dumps, early end and passes are right, also when the run is over before its first dump |
| AshRepeat | restart from an ash file, regional winds, two passes, averages | `MovedInside`, `RepeatRunsFull`, `StashFollowsDumps` |
| AshStashBirth | births over four intervals | violates `UnbornMarked` |
| NewAsh | no restart, ash file or cloud file, with and without an eruption; five outlines, four sets of elevation points, the normal law and five lists of masses in classes of particles 1, 8 or 64 of which are one mass | `SameSide`, `CrossingsFound`, `EachItsOwn`, `SharesRight` |
| SortFile | 5 particles, 4 keys of which 2 are floats, a sort for each file | `KeysFollow`, `RangeSorted`, `StaysInside`, and that a sort ends |
| Winds | four series of files of up to three forecast runs, with records at different hours, ten resource lines, five sets of options, files arriving at any time | `OneRun`, `LevelsTrue` |
| WindWindow | all files of up to 3 records with 4 times, one of them no float; files of 7 | `Window`, `Covers`, `RecordsMatch`, and that reading ends |
| Lookup | an ascending grid of 4 values and a descending one of 3, nine coordinates | `InsideExact`, `Neighbours` |
| Grid | 2 particles, 2 records, 2 passes, 5 kinds of copies, a box of the user or none, a box printed in steps of 3; flights over the averages | `CellsRight`, `OnlyEdgeLost`, `AveragesAlign`, `AveragesExact`, `ExposureRight` |
| Terrain | three tiles on a circle of 24, one over the meridian and one of another size; three formats, three resolutions | `TileHolds`, `ListedOnce`, `Interpolated` |
| Web | 3 requests on a session typed in two ways, two volcanos of which one name continues the other, none, one or two earlier runs | `OneMakerEach`, `SharedWays`, `NoFailedLeft`, `KeptUntilError` |
| Http | two connections: POST or GET of a program, and a file beside a page that is missing; pipe and socket of two units | `LogSoonFresh`, `OneAnswer`, `ReplyWhole`, `BodyWhole`, and that every process ends and is reaped (`AllEnd`) |

Fairness. AshSim, AshSort and TimeWindow are sequential: weak fairness of `Step`,
since the one thread goes on when it can; inputs (a new `Load`) are not in
`Step`, so nobody is forced to call. MiniHttpd has weak fairness of the main
process, the signal handler, and of each connection's handler, its alarms, its
two interposers and its client: every process goes on when it can, signals
arrive, alarms go off in the end (ReadTimeout and WriteTimeout are what ends a
program that hangs), and a client sends its request and reads its reply. That last
part is needed: interposers have no timeout, and a client that read nothing
until it had sent all could stop all sides. SIGHUP, SIGTERM and clients that
leave are not fair; they may or may not happen. The other modules state safety
only.

Deadlock is checked everywhere but in NewAsh, where make_ash ends and nothing
follows.

Why the bounds are enough.

* AshSim: what one particle does depends on the others only through the two
  counters and the flag. Two particles give a last and a not-last one, three
  also one stopped between two moving ones. The times are chosen so that births
  fall on, between and after ticks, that the save interval is no multiple of the
  step (three units, steps of two), and that two dumps fall into one hour, as a
  name without minutes would have it. `Minute = Dt` makes names as coarse as a
  tick, the finest that can still be distinct. Two passes suffice for the
  averages' sizes, a third would repeat the second. The initial dump is taken
  only without repeats; AshRepeat asks for it and does not get it, and that it
  keeps to the properties where it is taken is proved (`StashCorrect`, `DumpTimes`,
  `LoopImplementsRun` hold for every `SaveAshInit`).
* NewAsh: one outline of each kind (a notch narrow enough to be stepped over, a
  diamond, a bow tie and another with crossing sides, a square); four cloud
  particles on one to three elevation points, with and without a remainder; ten
  new particles on up to three classes show the overlap and the rest; one
  particle is too few for the classes. The numbers of particles in a mass make
  equal numbers of unequal masses, and the larger number of the smaller mass.
* AshSort: with `Small = 4` and `Share = 2`, five elements are partitioned, and
  so is every range of three or more that results; shorter ones are left to
  insertion. Partitions nest and ranges wait on the stack. Four keys give ties,
  both orders, and pairs of keys that round to one float, downwards and upwards.
* Winds: first directories of one to three files, at most four in the end, so
  that a newer run may arrive between any two picks; the four series differ in
  the variables they have, in the shape of the grid, in the unit of levels and
  of geopotential, in the hours of their records, and in whether names sort as
  dates. The run lasts two hours (`RunHours`); "hgt" lacks an hour that "gfs"
  has, so that the two keep as many records for one eruption and not for the
  other. The lines put masks before, between and behind variables, twice, or not
  at all.
* WindLookup: the static indices hold the effect of one previous call; any
  sequence of calls is explored since states are finite. Different sizes matter,
  because an index left by one grid may be beyond the other.
* TimeWindow: three records have all permutations and ties; shellsort begins
  with an offset above one only from seven records on (offset 2), and those
  files have fixed times to keep it small.
* ConcGrid: the kinds of copies lie on a lower face, inside, on either side of
  the meridian, at a negative coordinate, and nowhere (not existing); cells are 6
  by 6 by 10 on a circle of 36, as -gridSize is written backwards. With a decimal
  of 3, limits at 5, 13 and 20 are not printed exactly; the first and the last are
  within half a decimal of a face, and 13 is not, so that both sides of `SteadyBox`,
  and the way out of the averages, occur. The flights pass
  inside, outside and at the edge, on both sides of the meridian; one begins
  before the first record, one is after the last and left out, and a line is not
  readable.
* DemTiles: one tile over the meridian, one of another size and one like the
  first give every relation two successive calls can have; points lie on borders,
  in a gap, in each tile, on either side of the meridian, below 0 and above 360,
  and beyond the pole. Three entries in the array are exceeded by four calls.
  Factors 1, 2 and 4 are full, reduced and refused resolution.
* Web: three requests are needed for one to be misled by what two others did;
  requests are symmetric (the run has invariants only). Numbers go to 11, past
  the step from 9 to 10 at which the listing's order breaks. The session is there
  before the requests, or is not.
* Http: two connections are the least for two children behind one signal; a
  program writes at most three units, one more than a pipe or the socket holds,
  and a body of two units comes with the headers, after them, or in two parts.
  One SIGHUP may fall between any two steps; in the two smaller scenes there are
  two (`MaxHups`), since it takes a second one to be forgotten.

## 4. The proofs

Every proof module proves inductive invariants (named below) in three facts:
`Init => Inv`, `Inv /\ [Next]_vars => Inv'` with one step or lemma for each action,
and `Inv => ` the property. Assumptions are the named `ASSUME`s of the modules:
sizes and options of the right type, Float and Clock monotonic and Float
idempotent, distinct grid values, records of the right type for files; rooms of
pipe, socket and echo that hold something; shares of sizes not all zero (the code
divides by their sum), outlines and elevation points that have points.

| Theorem | Property | Rests on |
|---|---|---|
| `AshProofs!TypeCorrect` | `TypeOK` | itself inductive |
| `CountersCorrect` | `Counters` | `StopInv`; cardinalities change by one when a particle joins a set |
| `EarlyEndCorrect` | `EarlyMeansStopped` | `StopInv`: the flag is only set when the two disjoint sets of counted particles fill `Particles` |
| `RestartKeepsStopped` | `LoadedStay` | `StopInv`: loaded particles stay stopped, so are never active |
| `DumpTimes` | `DumpsOnTime` | `DumpInv`: the clock is printOut after the last dump (or the eruption), and printOut stays below the interval plus a step |
| `StashCorrect` | `StashFollowsDumps` | `DumpInv`: both clocks are equal between steps |
| `GridOnce` | `GridWrittenOnce`, for Repeat >= -1 | `PassInv`: the file is written when the pass is Repeat, and passes are counted up to it |
| `RegionalRepeat` | `RepeatRunsFull`, for regional winds | `FullInv`: every way through the body passes the repeat guard when nothing is skipped |
| `InsideCorrect` | `MovedInside`: the place on regional winds, the height on global ones | `TypeOK`; what moves last is inside or stopped |
| `FilesKept` | `NoOverwrite`, when the save interval is a minute or more | `FileInv`: no stamp of this pass is later than its last dump, and `DumpInv` keeps the next dump an interval away |
| `MovesCorrect` | `OneMovePerTick` | `MoveInv`: in mid-step exactly the particles below idx have been moved |
| `LastMovingCorrect` | `LastMovingEnds`, unless restarted from an ash file | `LastInv`: in a run without stopped particles to begin with, the flag is set by the step that stops the last one, and nothing resets it |
| `LoopImplementsRun` | `ImplementsRun` | the step lemmas `BeginRun`, `MoveRun`, `TickRun`, `EndRun`, with `TypeOK`, `StopInv`, `LastInv`, and `FullInv` on regional winds |
| `MakersCorrect` | `EachItsOwn` | `RestartInv`: what a restart has left to do; `ValuesInv`: what each particle has after each step, apart for those of the file (`Old`) and of the eruption (`Young`); `SizesInv`, `Places`: up to where -phiDist has written, beside a file as well |
| `SharesCorrect` | `SharesRight` | `ClassesInv`: the classes given so far are intervals that follow each other, the last of them still one particle too long; `Interval`: what rounding down makes of a share; `SharesSums`: the sums of the shares |
| `CrossingsCorrect` | `CrossingsFound` | `CloudInv`: what build has found of the outline; `MeetsWhereTheyCross`: slopes and intercepts agree with orientations, also of parallel sides |
| `SidesCorrect` | `SameSide` | `SideInv`: every elevation point, in whatever order, and every point placed has the parity build found; `CountsAgree`: that parity, by the code's half lines to the south, is that of the half lines to the east |
| `MakeTypesCorrect` | `MakeTypeOK` | `BoundsInv`: what is placed by walk never exceeds what is wanted, and a class ends in the array or just before it |
| `AshSortProofs!SortTypes` | `TypeOK` | `PivotInv`, `RangeInv`: the bounds of ranges and scans |
| `OrderCorrect` | `Permutation` | exchanges and shifts are bijections; in a scan order[l+1] is still o |
| `KeysCorrect` | `KeysFollow` | `PivotInv`: the pivot's key and order, held in locals, belong together; Float is idempotent |
| `RangeCorrect` | `RangeSorted` | `RangeInv`: what insertion has gone through |
| `SmallCorrect` | `Sorted`, when N <= Small | `SmallInv`: with one range, insertion alone sorts everything |
| `AshSortProofs!InsideCorrect` | `StaysInside` | `StackInv`: ranges do not overlap, and each one put aside costs the current one two elements; `SentinelInv`: the element that stops each scan, as long as rounding does not move the pivot beyond it |
| `WindSetupProofs!WindsOfOneRun` | `OneRun` | `IInv`: each grid is of a file that was in the directory, V passed the test of references, and heights come from a Z that passed it; `MaskRead`: what loadResources remembers of u after the whole line is what a reader of the line finds |
| `LevelsCorrect` | `LevelsTrue` | the same with what each conversion makes of each kind of level, and all four tests of PtoH |
| `WindGridProofs!WindowTypes` | `TypeOK` | `ShiftInv`: the window moves to lower indices only |
| `SortCorrect` | `SortedTimes` | `ArrangeInv`: some permutation of the file; `OrderInv`: a sweep of offset one without a swap has compared all neighbours |
| `WindowCorrect` | `Window` | `SearchInv`: what the two searches have passed; `ShiftInv`: what is still to move is unharmed |
| `CoverCorrect` | `Covers` | the same |
| `RecordsCorrect` | `RecordsMatch` | `ArrangeInv`: each time kept is one the file has, so the search by value finds one |
| `LookupTypes` | `LookupTypeOK` | itself inductive, with bounds jl < ju |
| `BracketCorrect` | `Bracket` | both bounds come from a comparison |
| `InsideCorrect` | `InsideExact` | `LocateInv`: a coordinate inside keeps jl and ju around its interval |
| `ClampCorrect` | `ClampedExact` | `LocateInv`: outside, the bisection goes to one end |
| `NeighboursCorrect` | `Neighbours` | `LocateInv`, and at least two values |
| `ConcGridProofs!GridTypesCorrect` | `TypeOK` | sizes are not negative since boxes are in order |
| `CellsCorrect` | `CellsRight` | `CountInv`: each element counts the copies seen so far; `CellInjective`: the index is a number in mixed base, so cells differ |
| `EdgeCorrect` | `OnlyEdgeLost` | limits enclose all copies, rounding encloses the limits |
| `AlignCorrect` | `AveragesAlign` | `HomeInv`, `OwnInv`: the grid is that of the limits of the first pass, and of the printed box in later ones; `SteadyGrid`: a limit that keeps away from the faces by half a decimal is rounded to the same face after printing (`PrintedFacts`); `ArraysInv`: the averages have the cells of the first grid |
| `AverageCorrect` | `AveragesExact` | weights: `avg * wgt = total * den` is kept by each pass that has the grid of the first (`AveragedCell`) |
| `PlanesOverGrid` | `PlanesSpec => Spec` | every step of Planes is one of ConcGrid or leaves its variables alone |
| `ExposureCorrect` | `ExposureRight` | `ReportInv`: the flights are made of lines, and exposures are those of the averages; `LookedUp`: the index of abs_conc is that of the cell |
| `DemTilesProofs!TerrainTypes` | `TypeOK` | itself inductive |
| `TileCorrect` | `TileHolds` | `Found`: each of the three ways to a tile has tested its limits, or has tested those of all |
| `ListCorrect` | `ListedOnce` | `New`: only a tile that is not in the array, or goes over the meridian, is added; with distinct entries the pigeonhole principle leaves room |
| `CellCorrect` | `Interpolated` | `AnsInv`: the answer is that of the tile found and of its own sizes; `RowColumn`, `ColumnWeight`, `RowWeight`: cell and weights stay inside the tile; `DatumPlace`: the place in the tile of the datum at an index, for each order of the data |
| `WebRunsProofs!WebTypes` | `TypeOK` | itself inductive, with `JobInv` |
| `SessionsOpenedOnce` | `OneMakerEach` | `SessionInv`: a session somebody has opened, or that was there before, exists, so mkdir refuses it to others |
| `FailedLeaveNothing` | `NoFailedLeft` | `UserInv`: who has something in a directory works there or has come to its end there, and who announced a failure has removed it |
| `SuccessKept` | `KeptUntilError` | `KeptInv`: what a request wrote is lost only by one that failed or deleted it |
| `SharedOnlyThus` | `SharedWays` | `FreshInv`: any two new runs of one directory are excused by what one of them met, or one of them is past |
| `MiniHttpdProofs!ServerTypes` | `TypeOK` | `ServerInv` |
| `LogCorrect` | `LogSoonFresh` | `FreshInv`: only the top of the main loop re-opens the log, every accept goes by it, and a flag that is cleared was seen there, but for one set since |
| `OneAnswerCorrect` | `OneAnswer` | `AnswerInv`: nothing, a page of the server by a handler that has ended, or headers and data by a program |
| `ReplyCorrect` | `ReplyWhole` | `FlowInv`: what the program made is in its pipe, held by the output interposer, or answered; `ClosedInv`: nothing is added after the socket is shut |
| `BodyCorrect` | `BodyWhole` | `BodyInv`: what the client sent is in the socket, read ahead, in the pipe, or read by the program; `InputInv`, `ShortInv`: when an interposer may be gone |

Where a theorem has a condition, the code fails without it: `RepeatRunsFull`
with global winds, `Sorted` above `Small` (section 5 says why); with a repeat
count below -1 no pass is the last; names of ash files end in minutes, so dumps
less than a minute apart can share one; the stopped particles of an ash file are in
no counter. ConcGrid's theorems are about `Spec`; the run Grid checks them
under `PlanesSpec`, which implies it (`PlanesOverGrid`).

How the longer arguments go.

* MiniHttpd. `ServerInv` says for each connection where every unit is that the
  client sent and that the program made, and which processes there are in which
  stage; it is the whole of the state, since a process that ends early leaves its
  units to nobody. A step belongs to one connection, so the proof is one lemma
  for each action, and for the other connections one that nothing of theirs
  changed (`SameButPc` where a child is reaped). Rooms and lengths are any
  positive numbers, connections and scenes any sets.
* WebRuns. Any set of requests. Each lemma of the four invariants goes through
  the actions; the hard one is `NameRun`, where the listing gives a number while
  others are between name and mkdir.
* InitialAsh. `SharesTo`, like `Flights` and `Summed` of Planes and `Taken` of
  WindSetup, is a recursive function; that it exists, and that its equation holds,
  is proved from the least number for which it would not (`SharesSums`,
  `FlightsType`, `TakenSteps`), as the prover has no induction over data. Bounds
  of products are lemmas of their own (`Grows`, `Interval`, `SquareSign`), since
  the solver is not at home in non-linear arithmetic.
* InitialAsh, the sides of the outline. Take the quarter between the half lines
  from a point to the south and to the east. A side that keeps clear of the point
  crosses the two together an odd number of times exactly when one of its ends
  lies in the quarter (`OneSide`), and as many sides begin in it as end in it
  (`BeginAndEnd`), so the two counts have one parity (`EvenTogether`). No
  induction over the sides is needed, only that the next vertex is a bijection.
  That the sort of elevation points makes none up is the same kind of argument:
  ranks are a bijection since ties are broken by place (`SortedFrom`).
* AshSort. `StackInv` bounds the stack by the particles: every push takes two
  elements out of the range at hand, so `2 * Len(istack) < N`, and the array has
  room for `NSTACK`, which is N or more.

Only model-checked, not proved:

* liveness (`Termination`, `SortEnds`, `ReadEnds`, `AllEnd`): the prover has no
  rule for fairness or ENABLED. Every safety property of a passing run is proved.

Some properties are proved, and stated by no run, because a stronger one that is
run implies what a small instance can show of them: `Counters`,
`EarlyMeansStopped`, `DumpsOnTime` and `LastMovingEnds` (by `ImplementsRun`),
`LoadedStay`, `Permutation`, `Bracket`, `ClampedExact`, `SortedTimes` and the type
invariants. No module uses a recursive operator; sums and counts are
cardinalities, recursive functions or running totals, which the invariants relate
step by step.

## 5. Where code and documentation disagree

Shown by a run that violates one property:

* AshStashBirth: "mark those that have not been born non-existing"
  (`ash.C`, stashData): the index runs over the first record of the stash, so
  unborn particles of later records are counted in the grid.

Named by an exception in a property that holds: as far as the models go, there
is no other way in which that property fails.

* "do not end early with repeat runs" (`puff.C`): the `continue` for ash grounded
  below the grid (`puff.C:410`) leaves the body before the guard. If it is the
  last of the list, the pass ends early (`EndsEarly` in `Run`).
* Ash::read copies the flags of stopped particles (`ash.C:803-808`) but does not
  count them, so a restarted run does not notice that nothing moves (`Punctual`).
* make_winds takes heights to be what every grid ends with, but asks neither
  PtoH for its success nor each grid for its unit (`LevelsTrue`): with U in
  meters the other grids are left as they are (`Aside`); a grid in meters beside U
  in millibars goes through the formula when there is no usable Z (`Twice`);
  with a Z of another run, shape or number of records, or of an unknown unit,
  levels stay in millibars and make_winds returns OK (`Unfit`, for instance when a
  forecast arrives between the choices for v and z, or when the file of z has fewer
  hours, `uniGrid.C:378`); units are looked for inside lists of
  units, so that "m" and no unit are divided by 9.807 *and* scaled by ten,
  "meters" is scaled by ten, and the levels of gpDekameters are not (`Misread`).
* The number of a new run is found in a sorted listing (`runParams.pl.in:318`):
  behind X9, since X10 sorts before it, and behind a name that continues X, the
  number is one that is taken; mkdir's failure is not asked for (`Misled`). Two
  requests that were named before either made its directory share it, too.
* The form lists "all the sucessful simulations performed so far"
  (`src/web/help/previous.html:4`). runParams.pl removes a run when puff has
  printed a line with "ERROR:" and asks neither puff nor the shell for a status
  (`runParams.pl.in:399-432`), so a run that fails in another way is listed,
  with what it wrote: without the resource file (`puff.C:147-151`), by the
  netCDF library, by a crash. So is one whose script was killed (`NoFailedLeft`:
  "unnoticed", "aborted").
* "SIGHUP says to re-open the log file" (`mini_httpd.c:3045`): one that comes
  between re_open_logfile() and got_hup = 0 (`mini_httpd.c:769-770`) is
  forgotten, and any number of connections go to the old file (`LogSoonFresh`:
  "lost").
* An answer may be truncated when post_post_garbage_hack has set O_NDELAY on the
  socket that another process writes to (`raced`).
* `dem.C:228` adds a tile over the meridian to the array of ntiles entries at every
  call for a point beyond 360 degrees, since it is not recognised in it; after
  enough calls the array is overrun (`ListedOnce`).
* `dem.C:79-80` promises a bilinear interpolation. In the last column and row of a
  tile the cell is moved inward (`dem.C:134-135`, marked "fixme") but the weights
  are still measured from it, so they exceed 1, and dem.C:158 then takes a weight
  above 1 for a point over the meridian and adds 360 degrees. And all tiles are
  indexed with the size of the first one used (`dem.C:108-109`) (`Regular`).
* "NED data starts in southwest and reads northward" (`dem.C:333`), but elevation()
  takes them from the northwest, like GTOPO30 (`dem.C:131-140`): one of the two is
  wrong, and if it is elevation() it answers from a mirror image of the tile. DTED0
  data are stored column by column (`dem.C:293-306`) and taken "row by row"
  (`dem.C:142`), so that a square tile is transposed and others are jumbled; the
  rows count from ysize instead of ysize-1, which is one off, and on the first row
  reads past the array. (`Interpolated`, by `TakenAt` in each of `Orders`.)
* The box of the first pass is "used as well" (`ash.C:1209-1212`) by later ones, but
  goes through a string with six decimals: a limit within half of the last one of
  a face of a cell may give the later passes a grid with more or fewer cells than
  the averages have (`SteadyBox`; such limits are near a multiple of -gridSize, or
  of a size that six decimals do not resolve).
* With a restart file -phiDist counts the new particles but indexes all of them
  (`ash.C:506-521`): as many of the last new ones as the file has keep size 0
  (`LeftOut`), the file's particle at the place before may be changed (`Changed`),
  and with no new particles it writes before the array (`SharesRight`: `wild`).
  The sizes of the others come from the wrong shares.

Met while reading, without a property of their own:

* The median of three is miswritten (`ash.C:929`; `src/TODO:3` asks for it to be
  fixed), and a file ordered by time may not be.
* The grid's box is "used as well" for the next passes (`ash.C:1196`, `ash.C:1209`),
  but each pass decides anew whether longitudes are shifted over the meridian, so
  ash inside the kept box may be left out.
* In the regional branch ash that is deposited below the lowest level is then
  put out of bounds (`puff.C:420-428`), though the comment of the global branch
  says of it "which is OK" (`puff.C:409`); so `GroundedExists` holds for global
  winds only.
* `src/web/help/phiDist.html:4` calls the numbers of -phiDist percentages of the
  particles; the code takes them for percentages of the mass (`ash.C:458-461`) and
  converts them (`ash.C:462-498`, `ByNumber`). `SharesRight` is about the shares
  after that conversion; the classes overlap by one particle.
* "if -1: from restart file, so all ages are eruption time" (`ash.C:375`): the
  loop behind this comment starts at ashNpart, after the particles of the
  restart cloud, so they keep -1. `EachItsOwn` allows either. An ash file with
  no particles is taken for a cloud file.
* A point on the longitude of a vertex of a cloud's outline is over neither of the
  two sides that meet there (`cloud.C:268`), so a diamond's middle line is filled
  outside; vertical sides never cross anything; the number of tries is tested only
  between walks.
* The references of T and Z are compared with U's only where PtoH uses them;
  -path is not put before the files of -fileT and -fileZ; the number of levels of Z
  is compared, their values are not; names of files are compared as text, so the
  newest is another one when a mask puts the day first; V is indexed with U's
  sizes in wind_create_W.
* The temperature of the standard atmosphere is converted twice (the comment at
  `atmosphere.C:285` expects once); read_uni never shifts a grid west, since its
  coverage is not known then (`atmosphere.C:446` says otherwise); without exp10
  the fall velocity takes 0.1554 where the comment has 0.01554.
* `netcdf_io.C:146`: the reference time of the file read before stays when the new
  file has none of its own. `netcdf_io.C:180` speaks of data that completely cover
  the run, but a run that begins before the first record or ends after the last is
  accepted silently unless fewer than two records remain.
* `vspline.C` says values beyond the grid are filled; they are clamped, above the
  grid with the index of an earlier call (see WindLookup). At the last value of a
  descending dimension fg_locate reads past the array.
* NED data at a reduced resolution always end in "entire DEM file was not read" and
  exit(0), with status 0.
* A flight that is left out of the report, or is in it, is decided by the times of
  its first and last line, whether or not they are in order (`planes.C`).
* `puff_options.C:175` "make sure at least one file will be saved": when the
  time step does not divide the run length, the loop can end before the interval
  is reached, and nothing is saved; with a concentration grid to make of it, a
  null pointer is read (`EmptyStash`).
* With -repeat below -1 the gridded file is never written (`puff.C:481`).
* `src/web/help/saveHours.html` says the interval is rounded to the nearest 10
  minutes; `puff.C:445` rounds up.
* The last ash of a run is written only if a dump is due then; the comment at
  `puff.C:470-474` knows it ("user beware"), and so an early end leaves the last
  deposits out of the files.
* mini_httpd: the alarm of 300 seconds survives exec, so that a slow program is
  killed by it; SIGHUP between the test of its flag and select takes effect at
  the next connection only (`LogSoonFresh` bounds that to one, or forgets it,
  see above).

## 6. What is not modelled

* Numerical work: interpolation weights and splines, diffusion, the vertical
  wind, fall velocity, rotated grids, projections, patching of bad data, random
  number generators, colours. Their results are choices in the models, wherever
  control depends on them.
* Input and output formats: netCDF attributes, packed grids, text files, option
  strings, file names beyond what makes two of them equal.
* Of the web server: nph- programs, SSL, virtual hosts, directory listings,
  authorization, malformed headers, reset connections, and the start up to the
  bound socket. A failing fork, select or accept ends the server in the code.
* Of the web interface: forms, pages and plots.
* Third-party code: the JPEG and projection libraries.
* The MPI mode, which no build file enables and whose code does not fit the rest
  (MPI_Finalize is called inside the loop over passes).
* The tools around puff (ashdump, pp2nc, ashxp, perl scripts): each reads one
  thing and writes another, sequentially and without state that lasts.

Of the source lines of the repository, the greater part is of these kinds: a
vendored JPEG library alone is about half, then graphics, printing, configuration
scripts and numerical code. The modules stand for most of the code in which a
step depends on what an earlier step, another pass or another process left.

## 7. The plan

Done: the simulation loop and what it implements, the sort, the winds from the
choice of files to the lookup, the grid with its averages and the flights, the
terrain, the initial ash with the cloud files, the web runs and the server, each
with its run; proofs for eight modules. What is left, most important first:

1. `AshGrid`, the composition of AshSim and ConcGrid through the stash: a copy is
   counted only if its particle was born and in the grid at the time of the
   record (it is not, after the first record: `UnbornMarked`).
2. `GlobalWrap` (`puff.C:388-405`): over the pole and around the dateline, against
   the region xMin to xMax, the one hazard of the list without a property.
3. The substring rule of the volcano list, the filters of ashdump, which print
   and count by different conditions, and patch_line.
