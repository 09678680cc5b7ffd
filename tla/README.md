# distra-timdali: TLA+ models, checks and proofs

The repository holds six assignments of a course on distributed systems, `pa1`
to `pa6`.  Each is a C program that forks `N` children which talk over pipes:
a start/finish barrier (pa1), a bank with balance histories in physical time
(pa2) and in Lamport time (pa3), and mutual exclusion with the algorithms of
Lamport (pa4), Ricart and Agrawala (pa5) and Chandy and Misra (pa6).  Later
assignments are built with files of the earlier ones through symbolic links:
pa2 to pa6 use `ipcio.c` and `log.c` of pa1; pa4 to pa6 use `time.c` of pa3;
pa5 and pa6 are pa4 with another `mutex.c`.

## Inventory

| component | code | state | operations | interacts with |
|---|---|---|---|---|
| pipes and messages | `pa1/ipcio.c`, `pa1/ipc.h` | one pipe per ordered pair of processes; blocking in pa1, non-blocking from pa2 on | `send`, `send_multicast`, `ipc_multicast_to_children`, `receive`, `receive_blocking`, `ipc_receive_any`, `ipc_receive_all_next` | the kernel: FIFO, EAGAIN, SIGPIPE, end of file |
| Lamport clock | `pa3/time.c` | `lamport_time` of each process | `advance_lamport_time`, `synchronize_time` | every send and receive of pa3 to pa6 |
| process skeleton | `pa4/child.c`, `pa4/main.c`, `pa4/parent.c`, `pa4/ipcext.c` | program counter, iteration, `awaiting_children`, receive cursor | fork, STARTED barrier, iterations, DONE, drain, `sleep(1)`, exit, `wait` | calls the mutex; messages STARTED and DONE |
| mutual exclusion | `pa2/pa2345.h` (interface), `pa4/mutex.c`, `pa5/mutex.c`, `pa6/mutex.c` | request queue and reply count; forks and request tokens | `request_cs`, `release_cs`, `handle_cs_requests` | messages CS_REQUEST, CS_REPLY, CS_RELEASE |
| barrier program | `pa1/child.c`, `pa1/main.c`, `pa1/ipcext.c` | receive cursor | STARTED and DONE barriers | blocking pipes |
| bank | `pa2`, `pa3`: `child.c`, `parent.c`, `ipcext.c`; `pa2/pa23.c`, `pa2/banking.h`, `pa2/bank_robbery.c` | balance, balance history, clock | `transfer`, TRANSFER, ACK, STOP, DONE, BALANCE_HISTORY | `bank_robbery`, `print_history` |
| logging, library, build | `pa1/log.c`, `pa2/lib64`, Makefiles | files | output | - |

What is hard in this code:

* Nothing is synchronized but the pipes.  A child takes messages of its peers in
  an order that depends on when it polls which pipe; a handler with several
  sends is interleaved with everything else between two writes.
* One receive loop serves several conversations: requests, replies and
  releases, and the DONE messages that end the program.  `request_cs` returns
  in the middle of a request when a DONE arrives and is called again.
* Processes end while others still use their pipes.  A write to a closed pipe
  is a SIGPIPE; a read from one returns 0 and `ipc_read` never leaves its loop.
  `sleep(1)` is all that stands between a child's last message and its exit.
* `receive_any` takes whatever comes first.  The parent writes STOP to one child
  after the other, and a child that has read it multicasts DONE at once; the
  DONE can be read by a sibling that has no STOP yet.
* The histories of pa2 and pa3 have one entry per time, are filled in after the
  fact, by each child from its own clock, and are compared only by the parent.
* `send` of a reply ignores its result; `assert` ends a child whose peers then
  wait for ever; the order of grants rests on the clocks.

What makes the components correct: at most one child between `request_cs` and
`release_cs`; grants in the order of the requests (pa4, pa5); no circle of
waiting children (pa6); no assertion fails; every request is granted and every
process returns from `main`; the parent receives the DONE of every child; a
bank keeps the sum of balances and pending transfers at every time of the
histories.  `PROJECT.json` lists the hazards line by line with the properties
that cover them.

## Modules

| module | models |
|---|---|
| `MessageQueue` | what the programs take a pipe for: a queue of whole messages |
| `IpcBytes`, `MCIpcBytes` | one pipe of `pa1/ipcio.c` byte by byte, blocking or not; implements `MessageQueue` |
| `Ipc` | `pa1/ipcio.c` as the programs use it, with whole messages: `pipes[dst][from]` and `outbox[p]`, what the running handler of `p` has still to write |
| `MutexChild` | the shared skeleton: `main.c`, `parent.c`, `child.c`, `ipcext.c` of pa4 and the clock; the properties that hold for all three programs |
| `Mutex` | the abstract service: `status` of each client, Request, Enter, Leave, Die |
| `MutexLamport`, `MutexRicart`, `MutexForks` | `pa4/mutex.c`, `pa5/mutex.c`, `pa6/mutex.c`; each extends `MutexChild` and is a complete program |
| `MCLamport`, `MCRicart`, `MCForks` | the values of `Iterations` for the model checker |
| `TwoBarriers` | what STARTED and DONE are for: two barriers that nobody passes before all have reached them |
| `BarrierProgram`, `MCBarrier` | pa1: `child.c`, `main.c`, `ipcext.c` over blocking pipes |
| `Ledger` | what the bank promises: transfers one at a time, in order, each exactly once |
| `Bank` | what pa2 and pa3 share: `pa23.c`, `parent.c`, `transfer()`, the receive loops and the sweep of `ipc_receive_any` |
| `BankPhysical`, `BankLamport` | `pa2/child.c` with the physical clock; `pa3/child.c`, `pa3/ipcext.c` with Lamport's; each extends `Bank` and is a complete program |
| `MCBankPhysical`, `MCBankLamport` | the balances for the model checker |
| `ChildProofs` | what the proofs about pa4 to pa6 share: pipes and links, two forms of induction, and the skeleton (types, places, who may have died) |
| `LamportProofs`, `RicartProofs`, `ForksProofs` | the proofs about pa4, pa5 and pa6 |
| `Pa1Proofs` | the proofs about pa1: its barriers, and `ipcio.c` byte by byte |
| `BankProofs` | what the proofs about pa2 and pa3 share: the invariant of the protocol, the ledger, sums over the children, the accounts after each order |
| `BankPhysicalProofs` | the proofs about pa2, with its histories |
| `BankLamportProofs` | the proofs about pa3 |

### State and actions

A process is a program counter `pc[p]` with these labels: `start` (before the
STARTED multicast), `await_started`, `loop` (between iterations), `ask` (top of
pa6's loop), `request` (in the receive loop of `request_cs`), `cs` (the body of
the critical section), `drain` (in `handle_cs_requests`), `sleep`; the parent
has `spawn`, `await_started`, `await_done`, `wait`; a process ends as `exited`
(returned from main), `killed` (SIGPIPE), `failed` (`log_panic` or `assert`), or
it stays in `spin` (a read loop at end of file).

One action is what the code does between two receives: take one message, run
the handler, evaluate the loop's condition.  Its sends are put into `outbox` and
leave it one `write()` at a time (`Write`), in ascending order of destination
as all loops of the code do; `p` does nothing else while it is `Sending`.

| action | code |
|---|---|
| `Start`, `AwaitStarted` | `child_sync_started`, `ipc_ext_await_all_started` |
| `PlainIteration` | an iteration without `--mutexl` |
| `BeginRequest` | the head of `request_cs` (`enqueue_own_request` in pa5, the `request_fork` loop in pa6, repeated by `AskAgain`) |
| `RequestTakesReply / Request / Release / Other` | the branches of the loop of `request_cs` with its final test (`ReturnIfFirst`, `ReturnIfReplied`, `ReturnIfAll`); `Other` with the repeated call of `child_entry` |
| `RequestTakesNothing` | pa6's test after a sweep that found no message |
| `Release` | the end of the body, `release_cs` and the step to the next iteration |
| `SendDone`, `DrainTakes...`, `Exit` | `child_send_done`, `handle_cs_requests` with the loop of `child_entry`, the end of `sleep(1)` |
| `SpinOnEof` | `ipc_read` at the end of file of a pipe nobody can write to |
| `ParentSetUp`, `ParentAwaitStarted`, `ParentAwaitDone`, `ParentExit` | `ipc_set_up_parent`, `parent_entry`, the `wait` loop |

pa1 (`BarrierProgram`) is built in the same way with labels of its own:
`Broadcast` fills the `outbox`, `ReceiveNext` is one blocking read at the cursor
`from`, `ReceiveEnd` the end of the loop; a child that has passed the second
barrier is `exited` at once.

The bank has the labels `start`, `await_started`, `loop` (the receive loop of
`child_entry`), `await_done` and `send_history` for a child, and `spawn`,
`await_started`, `robbery`, `await_ack`, `await_done`, `await_histories` and
`wait` for the parent.  `balance[c]` and `history[c]` are the locals of
`child_entry`; `s_history` is a function on the times that have been written.
`polled[c]` is the pipe that the sweep of `receive_any` reads next: every poll is
a step of its own, so the model has exactly the orders of the code here.
`ordered` counts the calls of `transfer` by `bank_robbery`.

| action | code |
|---|---|
| `SyncStarted`, `AwaitStarted` | `child_sync_started` with `ipc_ext_await_all_started` |
| `PollEmpty` | a `receive` of the sweep that finds nothing |
| `TakeStop`, `TransferOut`, `TransferIn`, `Ignore` | a `receive` that finds a message, the fill of the history and the branch of the loop of `child_entry` |
| `AwaitDone`, `SendHistory`, `ChildExit` | `child_sync_done` after its multicast, the BALANCE_HISTORY message, the return from main |
| `ReceiveNext`, `ReceiveEnd` | one round and the end of `ipc_ext_receive_all` |
| `ParentOrders`, `ParentAwaitsAck` | `transfer` up to and from the wait for the ACK |
| `ParentStops`, `ParentGoesOn`, `FillCallback` | the rest of `parent_entry` with `parent_fill_history_callback` |
| `WriteAndTick` | a `write()` of pa2; the library advances the physical clock when the parent writes an order |

`IpcBytes` has one sender and one receiver.  `ipc_write` is one `write()`; `ReadSome`
is one `read()` that returns something, with the loop of `ipc_read` and the step
from header to payload in `receive`; `ReadNothing` is EAGAIN, which `ipc_read`
ignores in the middle of a part and reports between the parts.

Abstractions, and why they are safe:

* In the programs a pipe holds whole messages.  Header and payload are one
  `write` of at most PIPE_BUF bytes, which the kernel does wholly or not at all;
  `IpcBytes` shows that `receive` then hands out whole messages in their order,
  although it would not survive a part of one.  `PipeBound` shows that no
  pipe holds more than three messages in pa4 and two in pa5 and pa6, far from the
  64 KiB at which `write` would fail.
* pa4 to pa6: `ipc_receive_any` polls the pipes in turn, and a message may come to
  a pipe it has just passed; the model lets it take the oldest message of any
  pipe.  That allows a few orders more than the code does, so what is shown for
  the model holds for the code.  The runs that report a divergence have no choice of that
  kind on their way to it.
* `sleep(1)`: with `SleepCovers = TRUE` a child leaves only once all children
  have logged DONE (the comment of the code expects that of one second); with
  FALSE it may leave at once (`ricart_safety` and `forks_safety`; the theorems
  about pa4 to pa6 cover both).
* `Iterations` stands for `5 * id`; runs use smaller numbers or the real ones
  (`MCProgram`), the theorems hold for every number.
* The clock is unbounded.  Payloads are left out but for transfer orders and
  histories: no other receiver reads one.
* The transfers are those of `pa2/bank_robbery.c`: each child to the next one, then
  the last to the first.  The physical clock is binary code of the library,
  modelled from what the built pa2 does with it: a counter that all processes
  share and that advances when the parent writes an order.
* An entry of `s_history` that no code has written is not in the function, so a
  history with a gap is seen as such.

## Runs

| run | question | instance |
|---|---|---|
| `ipc_bytes` | whatever the mode, `receive` hands out what `send` accepted, whole, once and in order; it never writes past a buffer | 3 messages with payloads of 0, 1 and 3 bytes, header of 2, room for 8 |
| `bank_physical` | pa2 carries out a `Ledger`; no assertion fails; the histories show all the money at all times; every process returns from main unless a DONE is dropped | N = 3, balances 10, 20, 30 |
| `bank_lamport` | the same for pa3, with the money under way in the histories, equal lengths of all histories, and how far the clocks go | N = 3, balances 10, 20, 30 |
| `lamport` | exclusion and the order of grants; every process returns from main; the inductive invariant, the scan of the queue, clocks, pipe bound, refinement of `Mutex` | N = 3, iterations 1, 2, 0 |
| `lamport_plain` | without `--mutexl` the parent still gets every DONE | N = 3, iterations 5, 10, 15 |
| `ricart_safety` | the service of `Mutex`, order of grants, accounting of replies and of requests held back, with a `sleep(1)` of any length | N = 3, one iteration each |
| `ricart_live` | every process returns from main; pipe bound | N = 3, iterations 1, 2, 0 |
| `forks_safety` | the service of `Mutex`, one fork and one token per pair (the token until a drain takes it), no circle, with a `sleep(1)` of any length | N = 3, one iteration each |
| `forks_live` | every process returns from main; pipe bound | N = 3, iterations 1, 2, 0 |
| `barrier` | pa1 implements `TwoBarriers`, every process returns from main: nobody is killed or meets a message of the other barrier | N = 3 |
| `bank_race` | violated: `Termination` of pa3 | N = 2 |
| `lamport_plain_done` | violated: `EveryChildLogsDone` without `--mutexl` | N = 2, iterations 5, 10 |

Three children are the least with which a child can hold back or overtake one
peer while it waits for another, and with which pa6 can have a circle.  With
iterations 1, 2, 0 a second request of a child meets the release of the first,
a child that never asks answers from its drain loop, and a child ends while
others request.  The queues, forks and counters come back to the same values
between two requests (up to the clock), so more iterations add states but no
situation.  In pa4 two children request at a time in these runs; that three do not
get in together is what the theorem says for every N.  pa1 has no parameter but N; with three children one can be a barrier
ahead of a second while it still waits for the third.  A bank of three has a child
that is neither source nor destination of an order, a child that passes on money
after it got some, and a DONE that overtakes a STOP while a third child still
waits for both; two children are enough for the race itself.  The pipe of
`ipc_bytes` has room for the longest message and another one but not for two of
the longest, so a `write` fails between messages of every length.  No state
constraint and no symmetry is used: ids decide between equal timestamps and fix
the order of the loops.

`CHECK_DEADLOCK FALSE` appears where the program may really stop: children that
spin at end of file after too short a sleep (`ricart_safety`, `forks_safety`),
children ended by SIGPIPE (`lamport_plain`, `lamport_plain_done`), and children that
wait for a DONE they have dropped or spin at the end of file of its sender (the
bank).

Fairness (`FairSpec`) is weak fairness of each process: the scheduler runs a
process that has something to do.  Nothing is assumed of the order of messages
or of which pipe is polled first; no action is fair on its own.

Each property of a passing run has a mutant in `PROJECT.json`: a definition of
the same module that makes a plausible mistake in the code (a missing reset, a
loop that ends one too early, a forgotten tie-break, no `sleep`), under which
the run finds the property violated.

## What the runs found

* The bank can hang.  A child whose sweep has passed the pipe of the parent before
  STOP came takes the DONE of a faster sibling for a message of no interest; after
  its own STOP it waits for that DONE for ever, its history is never sent, and the
  parent prints nothing (`bank_race`, for pa3; with `MCBankPhysical` in its place
  the run shows the same of pa2).  pa3 built with the repository's library hangs
  this way about once in five runs with `-p 15`.  `TerminationUnlessDoneLost` shows
  that nothing else keeps the bank from ending.
* With one child there is no transfer, STOP comes at physical time 0, and the
  final entry overwrites entry 0 while the length still grows to 2
  (`pa2/child.c:27`): `pa2 -p 1 10` prints a second column that shows 0.
* `pa4 -p 1 --mutexl` never ends: `request_cs` tests its condition only after a
  message, and with one child none comes, although the usage text admits one
  child.  pa5 has the same loop and hangs as well; pa6 tests after an empty
  sweep too and ends.  (`lamport.cfg` with N = 1 shows it; it is no run of its own.)
* pa4 (and with it pa5 and pa6) without `--mutexl`: child 1 exits while the others
  still iterate, and the DONE multicast of a slower child is ended by SIGPIPE
  before the child logs DONE.  The parent comes first in the multicast and
  still receives all of them (`lamport_plain`).  `pa4 -p 8` built with the
  repository's library shows it: most children end without logging DONE.
* If the scheduler holds a peer up for longer than `sleep(1)`, the peer spins at
  the end of file of a pipe and never exits, and the parent waits for it; this
  can only happen after the last iteration of all children
  (`ShortSleepHarmless`).

## Proofs

Constants: `NAssumption` (N is a positive natural number), `ChildAssumption`
(the types of `Iterations`, `mutexl`, `SleepCovers`), `BankAssumption` (the
type of `StartBalances`) and `IpcBytesAssumption` (the lengths of header and
payloads).  Nothing else is assumed, except where a theorem says
so: `LamportShortSleep`, `RicartShortSleep` and `ForksShortSleep` are about
`--mutexl`, and without it SIGPIPE does end children; `PhysicalConserves` is about more than one child, and
with one it is false (see above).  All theorems are about every number of children,
iterations and balances, and hold for a `sleep(1)` of any length.

| program | types | safety | refinement |
|---|---|---|---|
| pa1 | `BarrierTypes` | `BarrierNobodyFails` | `BarrierBarriers`: `TwoBarriers` |
| `ipcio.c` | `PipeTypes` | | `PipeQueue`: `MessageQueue` |
| pa2 | `PhysicalTypes` | `PhysicalSucceeds`, `PhysicalConserves` | `PhysicalImplementsLedger`: `Ledger` |
| pa3 | `BankTypes` | `BankSucceeds`, `BankConserves`, `BankClocks` | `BankImplementsLedger`: `Ledger` |
| pa4 | `TypeCorrect` | `LamportMutualExclusion`, `LamportGrantInOrder`, `LamportScanFindsTop`, `LamportClocks`, `LamportShortSleep`, `LamportPipeBound` | `LamportService`: `Mutex` |
| pa5 | `RicartTypes` | `RicartGrantInOrder`, `RicartReplyAccounting`, `RicartDeferredIsCurrent`, `RicartShortSleep`, `RicartPipeBound` | `RicartService`: `Mutex` |
| pa6 | `ForksTypes` | `ForksOneFork`, `ForksNoCircle`, `ForksShortSleep`, `ForksPipeBound` | `ForksService`: `Mutex` |

A refinement theorem proves both facts: the initial states map to initial states,
and every step maps to a step or a stutter.

### pa4

`TypeOK` is not inductive: `Release` increments `i`, so the proof carries that a
child in `request_cs` or inside is within its iterations (`TypeInv`).

Exclusion (`LamportInvariant`).  Two children inside would each be first in
their own queue (`FirstInside`).  Each has all replies, so its request is no
longer under way to the other (`ReplyAccounting`: the replies counted and the
children still to be heard from are at most N - 1, and nobody is outstanding for
a child inside).  Without a request under way there is no release under way
either (`LinkOrder`: a release without a request behind it means that the sender
has no entry), so the two queues agree on both entries (`QueueAgreement`), and
of two requests only one is first.  Each part is needed by another: `LinkOrder`
says that a pipe carries at most one request, after any release, with the time
of the sender's entry, and no request together with its reply; this is what
makes a received request or release update the right entry.  All parts are
restricted to children still in their program, because what is under way to or
from a child that ended may be lost.

A step of another process is neutral if it moves, adds or removes only messages
the invariant does not speak of (`NeutralStep`); the end of a process loses a
suffix of what it sends or a prefix of what it receives (`DeathStep`).  Most
actions are one of these; the six handlers of CS messages are proved one by one.

The order of grants needs more, `OrderInv`, because a child inside may not have heard
of all requests: what makes those later ones is that their senders had answered
before.  Requests and releases of a pair come in turn (`InTurn`); once q has
received the request of p, its clock is past it, and a pending request of q is
known to p, or p will know it before the reply, or it is the later one
(`Answered`).  Both hold for children that have died as well, whose requests
still count.  `ReplyAlone` keeps the death of a sender from losing a reply.

`LamportScanFindsTop` compares the loop of pa4 that goes through its queue with
the definition of the first request: by induction over the entries (below), the
scan keeps an entry that nobody read so far precedes.

### pa5

`RicartInv` has for `--mutexl` the skeleton's invariant and `RequestInv`: for
every pair of children, a request is either under way, held back, answered by a
reply under way, or counted, and in exactly one of these ways; a held back
request is the current one of its sender and later than the own one.  Two
children inside would each have been answered by the other, but the one with the
earlier request answers only after its release.  Without `--mutexl` there are no
requests at all (`NoRequests`).

### pa6

`ForkInv` says for every pair of children that its fork is in one place, in a child or
in a message, and its request token in one at most, that a child is asked for a fork only where
the fork is or will be, and only by one that waits for it (`Agreement`), and that
the children that have to yield to each other make no circle (`NoCircle`).  The
latter is stated through sets: every nonempty set of children has one that yields to
none of the others.  A step turns the edges of one child only, and so that this child
yields to all others, which keeps that.  `Tokens` adds that the token of a pair is not
lost while both of its children have iterations left.  After that it may be:
`handle_cs_requests` answers a CS_REQUEST without recording it in `has_request`
(`pa6/mutex.c:112`), so `OneFork` asks for one token only up to then.  That the other
child never misses it is part of `Termination`.

### What the pipes hold

A pipe between two children carries at most one message of each type: STARTED and DONE
are sent once, and the invariants above say so of the rest.  The messages that wait for an
answer exclude others.  A CS_REPLY goes only to a child that is in `request_cs`, and that child
has read all STARTED; a child with a CS_REQUEST under way is in `request_cs` itself, so it
has not sent DONE.  In pa5 and pa6 that leaves two messages (`InnerPipes`).  In pa4 a
release waits for nobody and a reply, a release and the next request may be together.
Its two exclusions have to be carried along (`LamportInv`): nothing is under way about the
request of a child that does not wait (`NothingOwed`), and nobody gets past its request as
long as a child has not read all STARTED (`Unheard`).  To the parent go only STARTED and
DONE, and nobody writes to itself (`NoSelfMail`).  Without `--mutexl`, where children are
killed by SIGPIPE in the middle of a multicast, a count of what each link has carried
takes the place of the skeleton's invariant (`Few`).

With `NothingOwed` the skeleton's invariant holds for pa4 as it does for pa5 and pa6, and
with it `LamportShortSleep`: the assertions of `pa4/mutex.c` hold because a CS_REQUEST and a
CS_RELEASE come in turn (`InTurn`), also from a child that has died meanwhile.

### pa1 and the bank

`BarrierInv` says of every link which of STARTED and DONE are on it, from the
labels of its two ends and the cursor of the receiver; with it the type check of
a receive holds, and no reader is gone while somebody still writes to it.

The bank's `ProtocolInv(w)` holds for some place `w` of the one order: there is
none, it is on the way out to the source, over to the destination, or its ACK is
on the way back.  It has the types, the place of each process in the protocol
(`Progress(w)`), that an order under way is the one numbered `ordered`
(`OrdersCurrent`), and for every pair of processes what the link between them
holds, as a word of message types (`Pairs(w)`), from what the one has said and the
other has heard.  Only a DONE may be missing: a child that has not seen STOP may have
dropped it.  Every step of pa3 keeps the invariant or
moves `w` on, and is a stutter or a step of `Ledger` (`Transacts`).  So does
every step of pa2; what a step of the shared part does to the invariant is proved
once, in `BankProofs`, and each program adds its clock and its histories.

`PhysicalConserves` needs `HistoriesInv` besides.  The accounts are always those after
some number of orders, or in between two with the money taken from the source
(`Accounts`, from the record `After` of the balances after each order).  The clock
counts the orders that the parent has written (`Ticked`), so the entry of time t in
any history is the balance after order t (`Recorded`): a handler fills its history
with the balance it had before, and none of the orders of these times was about this
child.  An order is carried out when the clock has ticked for it (`TimeOfOrder`),
because the source reads what has been written.  STOP follows the last order, so the
histories are complete when they are sent, and they arrive as sent (`Delivered`).  That
all show the same sum is then a fact about `After`: no order changes the sum
(`SumMoved`, by induction over the size of a set).

`BankConserves` is about pa3, where the clocks are the messages' own.  Its invariant
(`Moment(w)`, `TimesInv(w)`) has three layers.  As far as any history goes it is right
(`Recorded`, `Archived`): the entry of time t is that of the one order t belongs to
(`Begun`, `Entry`), and no child runs so far ahead that it fills in a time at which its
account is still to change (`Horizon`).  That rests on the time of every event
(`Punctual`): order k is given at `Turn(k - 1) + 1`, leaves its source at `+ 2`, is under
way for two entries, arrives at `+ 4`, and its ACK is back at `Turn(k)`, whatever the
scheduler does, because only one process at a time has anything to do and every other
clock is behind.  After STOP this remains so unless a child drops the DONE of another
(`Lossless`); from there on the clocks may run ahead, but no account changes any more.
A dropped DONE is never counted and its child never sends a history, so that a parent with
all the histories knows that none was dropped (`AllArrived`), and they all end at
`EndTime`.  That the entries of one time show all the money is the same fact about
`After`, with the amount of an order under way shown as pending by its source
(`RightTotal`).

`BankClocks` bounds the clocks of pa3 also where DONEs are dropped, for every number of
children.  The bound of one clock is not inductive, because a child that drops a DONE takes its
clock from a message and passes it on in its own.  `ClocksInv` therefore bounds them all
by what has happened so far: with d children that have said DONE (`Takers`) and p of
them that had dropped another one by then, no DONE is later than `Limit(d, p)`
(`MailWithin`), and a process is behind that by what it has still to hear
(`ChildWithin`, `ParentWithin`).  A child in its loop may be ahead by one for each DONE that
it has dropped, which is where the half of N(N - 1) comes from.  Most children can
drop one of the late ones only: STOP is written to the children in order
(`StopInOrder`), so it waits already for a child with a number up to d (`StopWaits`), and every sweep
after a message starts with the parent's pipe.  Until STOP every event has its time
(`Punctual`).  At the end no child whose history has arrived has dropped one (`LeftToDrop`).

### A pipe byte by byte

`PipeQueue` is about every set of messages, every capacity and both modes.  Its invariant
(`StreamInv`) says what the bytes in the pipe are: the rest of one message and then
whole messages (`Stream`: behind every byte comes the next one of its message, behind the
last one the first of another), and the front of the pipe is what `receive` is about to
read (`Reads`: the payload of the message whose header is in the buffer).  Hence a
`read()` always gets all it asks for, `total_read` is 0 between two calls, and the branch in
which `ipc_read` spins on EAGAIN in the middle of a part is never taken, in
whatever mode the pipe is.  A step reads a part (`ReadPart`), and the messages whose last byte is
in the pipe (`Messages`) lose one exactly when it is returned.  `Messages` is a
recursive function of a sequence; that it splits over `\o` (`MessagesConcat`) follows by
`AllSequences`, the induction below for sets of sequences.

### Induction

`Least` and `UpTo` (in `ChildProofs`, `Pa1Proofs`, and in `BankProofs` for the bank) are proved from the library's theorem on the
minimum of a well-founded relation: a nonempty set of naturals has a least
element, and a set that contains 0 and with every number below a bound the next
one contains all up to the bound.  They speak of sets instead of predicates, so
they can be cited for any property by way of a set comprehension.

### Only model-checked

All liveness properties and `TerminationUnlessDoneLost` (fairness and ENABLED are
out of the prover's reach).  Every safety invariant and every action property
that a run expects to hold is also a theorem.

## Not modelled

Argument parsing, failing `fork`, `pipe` or `malloc`, log output and payload
formatting, `print_history` and the rest of the binary `libruntime`, Makefiles: no
state that another process sees.  The widths of `timestamp_t` and `balance_t`
(int16_t both): `ClockBound` says for the bank how far the clock goes, 246 for the 15
children that the program admits at most; the clock
of pa4 to pa6 has no bound but the number of iterations, and with 15 children of `5 * id`
iterations, 600 in all of some 30 ticks each on the longest chain of messages, it is expected to
stay below 20000 (an estimate, not checked).  The length of the
payload that STOP and other status messages inherit from the message that was in
the buffer before: nobody reads that payload.

## Plan

1. `Ipc`, `MutexChild`, `MutexLamport`, `Mutex` with runs and the proof of mutual
   exclusion; `MutexRicart` and `MutexForks` with runs. (done)
2. `Ledger`, `Bank`, `BankPhysical`, `BankLamport`: transfers, STOP, DONE,
   histories, the race between STOP and another child's DONE. (done)
3. `BarrierProgram` (pa1) and the barriers it implements. (done)
4. `MessageQueue`, `IpcBytes`: `ipc_read` and `ipc_write` at the level of bytes. (done)
5. Proofs: for pa4 to pa6 types, exclusion, order of grants, the refinement of
   `Mutex`, forks and replies; for pa1 the barriers; for the bank that it never
   fails and carries out a `Ledger`, and that its histories show all the money. (done)
6. Proofs: the number of messages in the pipes of pa4 to pa6, the assertions of
   pa4, and that `IpcBytes` implements `MessageQueue`. (done)
7. Proof: the bound of the clocks of pa3, the times of the DONEs once one has been
   dropped included. (done)
