# AgentGuard in TLA+

AgentGuard supervises a coding agent: BPF programs follow the agent's process
tree and what it does, LSM hooks refuse what the policy forbids, a proxy vets its
HTTPS traffic, and a refusal is recorded and told to the agent. This directory models those
parts, checks them with TLC and proves the most important facts about them with
TLAPS. All paths below are relative to the repository.

## 1. Inventory

| Component | State | Operations | Talks to |
|---|---|---|---|
| Process tracker (`monitor.bpf.c`) | `tracked_pids`, a BPF hash map of 8192 keys | fork and exit tracepoints; update from userspace | consulted by every other BPF program |
| Supervisor (`main.go` `runEnforcer`, `launch_linux.go`) | the child, its ptrace stop, BPF links, signal context | set-up, launch or attach, serve, end | writes the first key of `tracked_pids`; owns everything else |
| File and exec enforcement (`enforcer.bpf.c`, `workspace.go`) | rule maps, per-CPU scratch buffers, violations ring | `file_open`, seven `path_*` hooks, `bprm_check_security` | reads `tracked_pids`; feeds the ring |
| Network enforcement (`enforcer.bpf.c`) | proxy address (frozen), `enforce_network`, `allow_local_dns`; the kernel's sockets | `socket_connect`, `socket_sendmsg`, `socket_create` hooks | as above; flags come from policy loading |
| Egress proxy (`proxy.go`) | listener, one goroutine and two sockets per connection | accept, vet, dial, check SNI, splice, close | reports refusals to the feedback path |
| Violation feedback (`main.go`, `hook.go`, `db.go`, `state.go`) | `active_session`, `<session>.json`, `latest.json`, audit table | read the ring, look up the session, write the files, write the row; hook: register, read, remove, print | ring and proxy on one side, the agent's hook processes on the other |
| Policy lookup and creation (`policy.go`) | the policy files, shared by all commands and the user | search by name or upwards; check, create, write the starter | before everything else |
| Policy loading (`main.go`, `policy.go`, `workspace.go`) | policies, numbered by name; BPF maps and flags | read, parse, normalise, load | sets what the hooks decide by |
| Event stream (`monitor.bpf.c`, `main.go`) | events ring, process tree | openat, connect, execve and fork programs append; one loop reads | shares `handle_fork` with the tracker |
| Dashboard (`api.go`) | none | `/agents` walks `tracked_pids` while it changes; the rest are queries | map, tree, database |
| Doctor, hook installation, command line, login, container | settings files; otherwise none | read and print; merge settings | |

What is hard here, and what makes each part correct:

* **Tracker.** `sched_process_exit` fires per thread, thread and process ids share
  one number space, ids are reused, the map can fill and processes can sit in a
  nested pid namespace. Correct: every process of the agent has its key and
  nobody else has one, apart from ways that can be named.
* **Supervisor.** The child exists before it is tracked; four calls must succeed
  in order, each may fail, the child may be killed, the goroutine may change its
  OS thread. Correct: the agent never executes unsupervised, no error leaves it
  behind, nothing hangs.
* **Enforcement.** Byte-wise matching in fixed buffers whose lengths do or do not
  count the NUL, scratch buffers shared by all programs on a CPU, of which one may be
  preempted for another, a ring that can be full. Correct: the verdict is a function
  of the rules and of the call's own paths; a record names the cause.
* **Feedback.** Three kinds of actor meet in files without locks; `os.WriteFile`
  is truncate, then write. Correct: every refusal is audited once, only whole
  texts are printed, a text is not lost or stuck, though hooks may be killed.
* **Proxy.** Client, upstream, name server and clock act on their own, and the
  client is told 200 before its hello has been checked. Correct: a tunnel leads
  where the policy allows, each refusal is reported once, every connection is
  decided, a half-closed one keeps its answer.
* **Network.** Three hooks look at three calls; sockets outlive them, are shared
  and inherited, and get peers by `accept`, which no hook sees; the kernel reads
  addresses in its own way; a flag that fails to be set is only logged. Correct: what
  a guarded process sends goes to the proxy or the resolver, or along a link that was
  not made under guard; what is refused is what the policy asks to refuse, and
  "blocked" in the audit means refused; the agent keeps its way out.
* **Policy files.** Several commands search and create the file one system call at
  a time while the user edits it, and any of them may die in between. Correct: no
  file is overwritten, a launch never runs under half a file, one network policy
  has the say, every command ends its search.
* **Event stream.** The ring drops records and does not clear them, ids are
  reused, the loop may stop for good, and a map is iterated while keys come and
  go. Correct: output is made of bytes of its own record, the tree tells of the
  present owner of an id, watching never disturbs tracking, a listing has every
  process that stayed and comes to an end.

`PROJECT.json` lists the places in the code where these things bite ("hazards").

## 2. Modules

| Module | Models | State and actions |
|---|---|---|
| `Tracking` | tracker | `threads`, `inner` (nested namespace), `tracked_pids`; `Fork`, `CloneThread`, `ThreadExit`, `ExecNonLeader`, `TrackPid`, `Spawn`, attach and release. `handle_fork` and `handle_exit` are operators on the map |
| `Supervisor` | supervisor, extends `Tracking` | `phase` is the position in `runEnforcer`, `agent` the child; one action per call of the launch, `LaunchFails` for each error, `Signal`, `Migrate`, `Crash` |
| `PathMatch` | byte-level matchers | `path_ends_with`, `path_is_basename`, `path_starts_with` on zero-filled buffers, index masks (`%`) included; `d_path` and `probe_read_str` are the kernel helpers |
| `Enforcer` | hooks | `call[t]` and `place[t]` per task, scratch buffers per CPU, ring; entering a hook and resolving is one step, matching another, so tasks interleave in between, on one CPU too. `RulesRefuse` says of a call what the rules say of its paths, without buffers and lengths; `Decision` how the hooks answer it, the lengths they give up at included |
| `Monitor` | nothing: the promise of the file and exec hooks | a reference monitor: calls, answers, records not yet read |
| `Feedback` | feedback | one action per system call on a shared file, by writer and by hook; `HookDies` |
| `Proxy` | proxy | `pc[c]` is the position in `handle`; peers and clock are actions of their own |
| `PolicyLoad` | policy lookup, creation, loading | `file` with who created it, `pc[s]` per command; one action per system call on a shared file; `Fail`, `Kill`, the user's writes. `loadAllPolicies` is a fold over the policies |
| `Egress` | nothing: the promise of network enforcement | who is guarded, what is allowed, where a socket leads |
| `NetGuard` | network enforcement, extends `PolicyLoad` | `Arm` sets flags and attaches, each flag possibly failing; the socket calls, each with its hook; reports, ring, audit row; `Stop` closes the proxy |
| `EventStream` | event stream and `/agents`, extends `Tracking` | the four programs' records, ring, `Grow` for the tree, `NextKey` and `LookupKey` for the walk |
| `MC*` | | instances for TLC |
| `*Proofs` | | theorems |

`Supervisor` composes with `Tracking` by extending it: a supervisor step is
either a tracker step with a change of the supervisor's own state, or leaves the
tracker alone. `ImplementsTracking` says so and is checked and proved.
`EventStream` extends `Tracking` in the same way (`TrackingUndisturbed`), because
`handle_fork` both puts the key and writes a record. `NetGuard` extends
`PolicyLoad`, as its flags are what the loader made of the file, and implements
`Egress`: `Guarded` are the tracked processes while hooks and enforcement are on,
`Allowed` the proxy and, with the flag, the resolver, and `Link` reads off a socket
where it leads and how that came about. `NetGuard` takes the tracker as a set of
processes that grows and shrinks freely, which covers whatever `Tracking` does.
The mapping leaves out one kind of packet, `Unread`: a datagram with an address of family
AF_UNSPEC, which the kernel sends like one of AF_INET and no hook reads.
`SendtoIsGuarded` says the same without the exception, and is violated.
`Enforcer` implements `Monitor`: a call is its hook and paths, the verdict is `Decision`,
and two looks, scratch buffers and other CPUs do not show. A call that shares buffer
and CPU with another that starts meanwhile may get any verdict, in both modules.

Ghosts of `Enforcer`: `torn[t]`, another program has filled the buffer that t's program is
using. Of `Feedback`: `perished`, texts that were in the hands of a hook when it was killed.
Of `NetGuard`: `outside` are sockets whose peer no hook has vetted (connected
or made raw out of guard, or accepted), `refused` in a report says what became of
the call, which the record itself does not, and the last field of `sent` is `Unread`.
Of `EventStream`: `own[p]`, what records made in p's present life say of it; `made`, what
the process did, to compare with the output; `steady`, keys nobody touched during a walk.

The ghosts of `Tracking`: `agentTree` follows the family tree whatever the map
does; `lapsed` are agent processes without enforcement for a reason that can be
read off the code (leader thread gone or replaced by an exec from a worker, full
map, nested namespace, a fifth namespace level, or forked by such a process);
`stale` are keys that outlive their process. The properties say that nothing else
goes wrong; the ghosts say exactly what does.

## 3. Runs

| Run | Result | Bounds |
|---|---|---|
| `supervisor` | pass | 3 ids, map of 2: the agent, a child or worker, an outsider or the child's child; ids are reused, the map fills; both modes |
| `enforcer` | pass | buffers of 8 and 4 instead of 256 and 64, 2 tasks on 2 CPUs (interchangeable, hence symmetry), ring of 1, 8 paths with every critical length: longest that matches, longest that fits, too long; at, below, beside and outside the workspace. Confinement on and off |
| `enforcer_long_root` | **violation** | one configuration with the longest root that is accepted |
| `enforcer_long_path` | **violation** | one task, no confinement |
| `feedback` | pass | 1 session; a long text and none through the ring, a short one and one of blanks through the proxy, telemetry; ring of 1 (so it fills); one hook process at a time, one of which is killed; inserts may fail |
| `feedback_lost` | **violation** | as `feedback`; no hook is killed, no insert fails |
| `proxy` | pass | 1 connection (connections share only the listener), eleven requests, seven hellos, the code's sizes. It may stop: a closed listener accepts nothing |
| `proxy_big_hello` | **violation** | one hello of 5000 bytes |
| `netguard` | pass | one `init`, one launch, one attach, 2 places; five texts: the starter, one of two kinds, a strict network policy before a lax one, two confinements, no YAML; empty or absent files from the start. 2 processes that share a socket, 3 addresses (proxy, resolver, elsewhere), all five classes of address family, ring of 1. It may stop: nobody has to start a command |
| `netguard_sendto` | **violation** | as `netguard` |
| `netguard_rows` | **violation** | as `netguard` |
| `event_stream` | pass | 3 ids, map of 3, ring of 2; names and arguments that are empty or cannot be read; 4 bytes an argument and 16 in all instead of 64 and 256, with an argument that just fits, one that is cut and a fourth that is ignored. It may stop: the loop can be over |

Four of the runs follow kinds of behaviour apart, to keep the state space small. The
proofs are about the modules without these splits.

* `enforcer` (`CrowdBound`): alone, a call may be any hook with any path; two at a time are
  calls of tracked tasks, of four hooks (six of the nine are one program) and two paths,
  of which each hook refuses one. What two calls do to each other depends on buffer
  and CPU only.
* `feedback` (`TurnoutBound`): the five refusals do not all happen in one behaviour, but the two
  from the ring with telemetry, blanks with the one without text, or the two texts,
  and in the last case inserts succeed.
* `netguard` (`busy`): after loading nobody looks at the files again, and the hooks
  depend on the loaded text alone. So either three commands and the user interleave
  on the files up to loading, or one attach starts from any file and its hooks are
  followed. One of the two processes is never tracked; it is the other user of the
  socket, and leaves the sending to the tracked one: `Egress` asks nothing of what an
  unguarded process sends.
* `event_stream` (`about`): the contents of records; lives and reuse of ids with few
  records; listings with the ring full. What a record contains does not depend on
  who else lives, and a listing reads keys only. Threads and nested namespaces,
  which only matter to the map, are exercised by `supervisor`.

What the violations show:

* `enforcer_long_root`: `workspace.go:15` accepts a root of 255 bytes because
  "path_len is capped at MAX_PATH_LEN-1", but the hooks refuse lengths from 255 on
  (`n` counts the NUL, the test is `n >= MAX_PATH_LEN`). Such a root cannot be
  opened; 254 bytes can.
* `enforcer_long_path`: the starter rules block "access to sensitive files"
  (`README.md:136`), but without confinement a path of 255 bytes or more is let through
  before the rules are looked at (`enforcer.bpf.c:409-413`). `VerdictAsPromised`, which
  passes, is the part that does hold: paths that fit, and all paths under confinement.
  Commands of 256 bytes or more are not matched either (`enforcer.bpf.c:708-727`).
* `feedback_lost`: "will be delivered by feedback hook" (`main.go:946`); a second
  refusal before the next hook overwrites the first. `UndisturbedIsNotLost`, which
  passes, is the part that does hold.
* `proxy_big_hello`: `peekSNI` says it handles a hello in a single record and
  admits 16384 bytes; the reader can peek at 4096. Its comment also says that a
  fragmented hello is rejected; the parser is lenient (`proxy.go:164-169`), and so is the
  model: one whose server name lies in the first record passes.
* `netguard_sendto`: the comment of `check_socket_sendmsg` (`enforcer.bpf.c:639-641`) says
  why unconnected `sendto` is guarded; an address of family AF_UNSPEC passes unread
  (line 658) and the kernel sends the datagram to it as to one of AF_INET.
* `netguard_rows`: "A deny is a kernel `EPERM`" (`README.md:144`); `report_and_deny` writes its
  record also when it returns 0, and every record becomes a row with action "blocked"
  (`db.go:280`). `RefusalsAreAskedFor`, which passes, is the converse: a refused call has a
  policy that asks for it.

Fairness. `Supervisor`: the main goroutine runs, the execve trap arrives, a
killed child exits; processes and signals owe nothing. `Feedback`: goroutines and
running hook processes go on (weak), and the agent keeps using tools in its
session, so a hook is started after a tool again and again (strong, because
another event may occupy the hook slot); without that no hook would ever read the
file, so `PendingDrains` says that the protocol does not get stuck, not that the
agent is busy. `Proxy`: the handler and the clock (`SetDeadline`, the dialer's
timeout); client and upstream owe nothing, except that an upstream goes on taking what
the client sends: `CopyUp` ends an `io.Copy` whose writes have no deadline
(`proxy.go:467`), and an upstream that stops reading could hold it up for ever.
`PolicyLoad`: a command that runs goes on (the kernel schedules it); nobody has to start
one, and the user owes nothing. `EventStream`: the goroutine that serves a request goes
on; the processes and the event loop owe nothing.

Each property has a mutant in its module (`\* Mutant: ...`, an operator nothing
uses) that changes the definition after it the way a slip in the code would; with
it in place TLC violates the property.

## 4. Proofs

For every value of the constants (any number of processes, any map size and
namespace depth, any buffer sizes, paths, accepted rule sets and CPUs):

* `TrackingProofs`: `TypeOK`, `SupervisedAreTracked`, `TrackedBelongsToAgent`.
  Inductive invariant `IInv`: the two properties do not imply themselves; that an
  exiting worker cannot remove the key of another process needs `IdsUnique` (the
  kernel hands out an id once), and exits before the programs are attached need
  `DetachedIsEmpty`. The proof goes action by action through `HandlerFacts`, what
  the two BPF programs can do to the map.
* `SupervisorProofs`: `SupervisorImplementsTracking` (step simulation, the identity
  as mapping), and through it the tracker's theorems in the composition; then
  `AgentRunsOnlySupervised` and `FatalLeavesNoAgent` from `SInv`,
  which says for each phase what the child can be doing and that from the map
  update on a live child is in the agent tree.
* `EnforcerProofs`: the matchers agree with suffix, directory prefix and basename
  of the path that was resolved (`EndsWithIsSuffix`, `StartsWithIsTwin` for the
  BPF and the Go version of the prefix test, `BasenameAgrees`); from these and
  `EInv` (unless it is torn, a running hook's buffer holds the path it is looking at; a
  second look happens only if the first let it through) that a call ends with its
  `Decision`, which for paths that fit is `RulesRefuse`: `VerdictAsPromised` and
  `EventNamesCause`. `HooksAreAMonitor`: each step is a step or a stutter of `Monitor`;
  besides `EInv` it needs `Unanswered` (no answer before the hook returns) and that a
  written record can be told from none (`RecordIsSome`).
* `FeedbackProofs`: `AuditedOnce` and `PrintsOneWholeText` from `FInv`: what waits in the
  ring is there once; a refusal past the lookup has its session and text (`Filed`),
  which stays so; a text in a file or in a hook's hands is that of a filed refusal.
  `UndisturbedIsNotLost`, with any number of hooks killed, from `UInv`: while the mirror is
  being written it is as the writer left it, unless a hook has unlinked it, and then
  a hook has held a text, which can only be the same one.
* `ProxyProofs`: `TunnelAsPromised` and `RefusalReportedOnce` from `PInv`, what `handle`
  has found out at each of its positions. The suffix test of `hostMatches` is shown
  to be the search for a parent domain (`PermittedIsListed`).
* `EventStreamProofs`: `StreamImplementsTracking` (step simulation), and so the
  tracker's theorem holds with a full ring or a dead loop (`WatchedAreTracked`);
  `NoSteadyPidIsMissed` from `ListInv`: a steady key has been listed, is the one
  being looked up, or is still ahead, and if the current key is deleted the walk
  starts again with all of them ahead; `TreeIsRight` from `TaleInv`: what `own` says
  of a process is told by the last record about it in the ring, or by the tree if
  there is none, which needs that ids are handed out afresh only after their last
  thread is gone, and `QuietInv`: before a pid is tracked there is nothing to tell.
  `StreamTypes`: the ring stays within its size and the walk within the map's.
  `OutputsAreOwn`, for every argument vector and every size of argument and field:
  started with room for one argument more, a turn of `handle_execve`'s loop takes a field
  that holds a line (and NULs behind it, `Spelt`) to one that holds the line and what
  the next argument shows (`TurnSpells`: ended, unreadable, a string); three turns make
  the line that a reader expects (`StitchSpells`), and `parseCString` finds it again,
  because no character is NUL (`ParsedAsSpelt`).
* `PolicyLoadProofs`: `LoaderIsRight`, what `loadAllPolicies` makes of every list of
  policies of any length. The provers have no induction rule they could apply, so
  it is done by least counterexample: a set of numbers that is not empty has a least
  one (`LeastNumber`), so there is a run of the loop of every length (`RunsExist`) and
  none has a first turn that goes wrong (`TurnIsRight`). From it and `PolicyInv`
  follow `LastPolicyGoverns`, `LaunchesUnderWholePolicies` and `NothingIsOverwritten`.
  `PolicyInv`: what a command has loaded is what the loader makes of the text it read, and
  past loading the launch's conditions hold of it; a file that a command has
  created and not yet written is empty, or has changed hands since.
* `NetGuardProofs`: `NamelessSends` from `NInv`: `Shapes` (the types it needs),
  `Phases` (the rules are fixed before the hooks are there and the flag comes with
  the hooks), `PeersOK` and `VettedInv` (the property made inductive: before there
  is enforcement no socket gets a peer without being in `outside`). `HooksKeepThePromise`: each
  step of `NetGuard` is a step or a stutter of `Egress` under the mapping above.
  From `GInv`, on top of it: `RefusalsComeFromThePolicy` (`AllTold`: each report in the ring and
  the last row say of their call what flag and rules decided, which stays true because
  both change only before the hooks are attached, when ring and row are empty, `Quiet`),
  `AgentKeepsItsWayOut` (`WayOut`: enforcement implies a network policy, and so a proxy,
  by `LoaderIsRight`), `NetTypes`; and `LoadingUnderHooks` and `FilesUnderHooks`,
  the theorems about policies in the composition.

Assumptions: 0 is no pid and there are finitely many; sizes are naturals, a
pattern buffer has two bytes or more and is no longer than a path buffer; the rules are ones the loader
accepts (`ConfigsAssumption`); no command is called "user" or "none", places are numbered
from 1, the starter is a readable text; a host name has a label at least;
markers such as "garbled" are neither refusals nor session ids; the longest argument put at the last offset
still fits the command field, which has room for three
(3 * 64 of 256 bytes); no character of an argument is NUL.

Only model-checked is all liveness (`LaunchResolves`, `GuardEnds`, `EventuallyAudited`,
`PendingDrains`, `ConnectionDecided`, `HalfCloseIsPassedOn`, `StartResolves`, `ListingEnds`),
which is outside this prover's reach. Every other property of a passing run has a
theorem.

## 5. Abstractions

* A task that is preempted while a hook runs for it stays on its CPU (the kernel disables
  migration). What a disturbed program makes of its buffer is any verdict and any policy
  of its hook; the bytes it copies into the record are taken as none.
* After a failed `bpf_d_path` the buffer is taken as zero, as the code's memset
  leaves it, and so are bytes behind the NUL.
* What a hook leaves in its scratch buffer is forgotten once no program runs on that CPU:
  every program overwrites the whole buffer before it looks at it.
* A character is a member of a small set; matching only compares.
* Descendants of the agent that outlive it lose the hooks with AgentGuard, which waits for
  the root process only. No line of the repository says otherwise, and no property does.
* `ExecNonLeader` collects the exits of all other threads in one step.
* Session ids have equal length, so that an overwritten `active_session` is one
  of them; one `os.ReadFile` is one step and fails only if there is no file. Writing
  `active_session` does not fail, and no hook comes with an id that `isHookSessionID`
  rejects (in `active_session` it counts like an empty file). A reason of blanks only (`Blank`) is
  written, and never taken up nor removed by a hook. `sessionIDByPid` is never filled by the
  code, so its lookups find nothing.
* A host is its sequence of lower-case labels; a request is what `http.ReadRequest`
  makes of the bytes. The pid that `identify` finds goes into the audit row only.
* An address is public or in one of `blockedNets`.
* `NetGuard`: address families are unix, inet, inet6, unspec and the rest. Sockets are ip,
  raw (packet sockets included) or unix; an ip socket may be a stream or a datagram one:
  a message with an address goes to the address, or, as on a stream, to the peer. A
  raw socket leads everywhere, so it is given no peer. Until the hooks are
  attached, sockets are made freely and are `outside`.
* `PolicyLoad`: the starter fits one page, so its `write` happens as a whole or not
  at all. The user's editor saves by renaming: a file that a command has created
  and not yet written loses its name. An attach takes an empty file for a policy
  without rules, a launch stops at it.
* `EventStream`: bytes of a record that its program does not set are one value,
  `Junk`, that no correct output contains. Sizes of the C and Go records agree, so
  decoding does not fail. An argument vector that cannot be read (one
  `bpf_probe_read_user` for all three pointers) leaves three null pointers, like an empty
  one, and is not told from it. The root's node is made in `StreamTrack`: nobody reads the
  tree before the loop starts. A key that is put again may move in the table, so
  a listing may show a process twice; `listed` is a set. A process that reuses an id
  and has not called execve shows the name of the earlier owner: `TreeTellsOwnLife`
  speaks of what its records have told.

## 6. Not modelled, and the plan

Left out for good:

* Hook installation: one process merges JSON and rewrites the file. The agent's own
  write in between is lost, for which the code has no rule a property could state.
* The dashboard's handlers other than `/agents`: single queries. `/agents` reads the
  process tree without a lock while the event loop writes it; a Go map race may
  stop the program and has no outcome a property could be about. The walk through
  the BPF map is modelled.
* Doctor, command line, login and container: no state of their own, only I/O.
* Database schema, logging and formatting; file ownership (`chownToSudoUser`).
* Generated code: the loaders, and `vmlinux.h`, 205943 lines of kernel type
  declarations. The logic in C is in `enforcer.bpf.c` and `monitor.bpf.c`.

Next: `Monitor` covers one call. The way from a refusal to the text that the agent reads
(`Enforcer` and `Feedback` share the violations ring) could be composed and stated end to end.
