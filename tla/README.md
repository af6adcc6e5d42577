# flake-server: TLA+ models, checks and proofs

Flake is a test server that emulates poor networks. Its clients (devices under
test) reach the same services over many ports, and each port has a delay and a
packet loss of its own. The program is a set of Python scripts in
`src/tools/host` that run inside one or two Docker containers and drive
`iptables`, `tc`, `cron`, `tcpdump`, `tail`, `iperf3` and a handful of socket
servers.

The definitions are translated from the scripts; `PROJECT.json` names, for each
of them, the lines it stands for. Where the scripts use the kernel, Docker,
`tcpdump` or `iperf3`, the modules model what the scripts rely on, and
`PROJECT.json` marks these definitions as external.

## 1. Inventory

| Component | Source (`src/tools/host/`) | State | Operations | Modelled in |
|---|---|---|---|---|
| Traffic control | `traffic_manager.py` | iptables and tc tables of the container's network namespace, `self.index` | `configure`, `clear_rules` | `TrafficControl` |
| TCP echo and kill servers | `echo_servers.py` | listeners, `client_sock`, threads, child processes, descriptors | `run`, `tcp_handle`, `tcp_poll_handle` | `EchoServer` |
| UDP echo server | `echo_servers.py:80-93` | one socket | `udp_handle` | `UdpServers` |
| Packet capture | `pcap_manager.py`, `pcap_listener.py` | process table, capture files, log directories | manager run (cron), `create_listener_process`, `run`, `kill_listener` | `PcapCapture` |
| Boot | `server_control.py`, `docker/10-flake-env.sh` | crontab, background services | `configure`, `configure_cron`, `start_*` | `ServerBoot` |
| Data files | `file_manager.py` | files below `public/files` | `configure`, `check_file`, `create_file` | `ServerBoot` |
| Port publisher | `port_publisher.py` | `ports.json` | `_clear_port_config`, `publish` | `ServerBoot` |
| TLS echo servers | `tcp_tls_server.py` | four accept threads, a thread per connection, their descriptors | `run`, `tcp_tls_handle` | `TlsServer` |
| UDP and DTLS servers | `udp_server.py` | three sockets, one thread each | `run`, `get_file`, `send_file` | `UdpServers`, `DataService` |
| Dynamic HTTP server, echo client | `dynamic_http.py`, `echo_client.py` | `LOCAL_PORT_UDP`, client threads | `do_POST`, `run_tcp`, `run_udp`, `receive` | `DynamicHttp`, `EchoClient` |
| iperf3 manager | `iperf3_manager.py`, `nginx/conf/nginx_logrotate.conf` | iperf3 daemons, log file | `clean`, `run_cmd`; logrotate's `create` | `IperfManager` |
| Configuration, logging | `lib/config_handler.py`, `lib/flog.py` | none | read, print | constants; left out |
| nginx, mosquitto, httpbin, ftp, HTML page, certificate scripts | configuration, third-party | | | left out |

How they interact: Docker's entrypoint sources the environment and runs `server
configure` (`server_control.py`), which creates the data files, publishes the
ports, configures the traffic rules, starts the socket servers with `&`, runs
the iperf and pcap managers once and leaves them to cron every three hours.
Packets of a client pass `PREROUTING` (redirect or DNAT, ingress loss), a
service, and the egress queues. With `docker-compose.yml` the filter and the
services run in two containers, and a forwarded packet passes the filter's
egress queues both on its way to the services and back.

What is hard here, and what makes each part correct:

* *Traffic control*: a sequence of some hundred shell commands, each of which
  may fail, applied to kernel tables that survive the script, while packets
  flow. Correct if no port is ever shaped by another port's rule, if announced
  success means that every port is shaped as configured, if a retry works, and
  if the delay and loss over a round trip are the configured ones for both
  deployments.
* *Echo and kill servers*: threads and forked children share descriptors; a
  killed child cannot close what the main process still holds. Correct if
  children do not inherit each other's connections, if a killed connection is
  closed, if data come back in order and nothing received is passed over, and if
  the loop does not block on itself. An exception in the loop ends all three
  listeners.
* *TLS servers*: the thread that accepts also makes the handshake, and four
  such threads share the descriptors of one process. Correct if no descriptor
  is kept without use and no connection waits for ever.
* *UDP and DTLS servers*: the first exception ends a thread for good, while the
  socket stays bound; any path can be requested, also one of a log that others
  remove. Correct if only known events cost a thread.
* *Dynamic HTTP server and its clients*: one connection at a time, read without
  a timeout, and clients in threads that share a counter of ports. Correct if
  clients echo everything, to the right peer, end in the end, and do not share
  a port.
* *Packet capture*: listeners find their predecessor with `ps | grep` and
  signal it, while it may be dying by itself, and `pkill` returns before the old
  tcpdump has ended. Correct if one tcpdump goes on capturing and one listener
  is left per port, if the listener reads its own tcpdump's file, and if nothing
  else is signalled.
* *iperf3 manager*: `pkill` returns before the servers are gone, nothing keeps
  two managers apart, and logrotate takes the log away. Correct if every port
  has a server afterwards, whose log can be read.
* *Boot and files*: container restarts that keep the file system (crontab,
  half-written files) but not the network namespace; services whose failure to
  start is not noticed.

The hazards are listed with their lines in `PROJECT.json`.

## 2. Modules

| Module | Role |
|---|---|
| `Emulation` | abstract: what the traffic rules promise to a device |
| `TrafficControl` | `traffic_manager.py`, implements `Emulation` |
| `EchoServer` | TCP side of `echo_servers.py` |
| `TlsServer` | `tcp_tls_server.py` |
| `EchoClient` | `echo_client.py` |
| `DynamicHttp` | `dynamic_http.py`, extends `EchoClient` |
| `PcapCapture` | `pcap_manager.py` and `pcap_listener.py` for one port |
| `IperfManager` | `iperf3_manager.py` |
| `ServerBoot` | `server_control.py` with `file_manager.py` and `port_publisher.py` |
| `UdpServers` | the threads of `udp_server.py`, and `udp_handle` |
| `DataService` | composes `ServerBoot` and `UdpServers` |
| `MC...` | the small instances of the module of that name |
| `...Proofs` | proofs about the module of that name |

### TrafficControl

One action is one command given to `os.system` (or the resolution of the
services' host name), named after the method that gives it; `pc` says which
command is next, `g`, `r`, `p` are the positions of the loops over port groups,
rules and ports. `Rules` is `network_emulation.json` after the two nested loops
of `configure()`, so that `r` is `self.index`. The tables are sets: `accepted`
and `nat` (for `nat` only the rule that decides, since `-I` puts the newest in
front), `filters`, `classes`, `netem`, and a counter per port for the `DROP`
rules, which are appended and all take effect. Delays are counted in half
milliseconds so that the halving for remote services is exact.

`GiveUp` is the failure of a command whose result is checked by an `assert`, or
the death of the script; `IgnoredFailure` that of one whose result is dropped
(SNAT, deletion of the root qdisc, sport filter: `MayFail` chooses which).
`ContainerRestart` makes a new network namespace, `Live` allows `configure` to
be run again in the old one, `Readdress` moves the services container.

`Emulation` only knows lanes, that is a port in one direction: a lane is bare or
has exactly its own condition, all lanes may become bare at once, and success is
announced only when all are shaped. `TrafficControl` implements it under the
mapping `shaped[l] = Treatments(l)`, `announced = (pc = "ok" /\ WithFiltering)`
(property `EmulationPromise`).

### EchoServer

`held[c]` is the set of processes that have a descriptor of connection `c`; TCP
ends a connection when it is empty. `AcceptKill` is `multiprocessing.Process`,
a fork: the child gets what the main process holds at that moment. `Rebound` is
the assignment to `client_sock`, which drops the last reference to the kill
connection accepted before, and `Poll` is the loop's connection to itself that
makes such an assignment happen. `Handle` is one round of `tcp_handle` (one
`recv()` and what follows), with the commands, undecodable bytes, end of stream,
resets and a `send()` that raises or takes a part only (`Reply`). A chunk is its
kind: text, bytes that are not UTF-8, text with a command word; an answer is a
chunk, sent back whole or not.

`accept()`, the start of a thread or of a child, and the making of the polling
socket may raise at any time (`LoopRaises`, `StartRaises`): nothing catches that,
`loop` is `"ended"`, and nothing is accepted any more. The process itself lives
until `multiprocessing` has joined its children, and its threads with it (`Exit`).

Abstracted: the kernel's buffers, and the time-out of `recv()`, which may happen
whenever nothing is there to be read. A chunk sent by a client is returned by one
`recv()`.

### TlsServer

`at[l]` is where the thread of listener `l` is: `Load` (certificates, bind,
listen), `Accept`, then the handshake in the same thread. `fds` is the set of
connections the process has a descriptor of; it grows by `accept()` only, and a
connection leaves it by `client_sock.close()` after a failed handshake, by the
end of its handler, or, for one that was wrapped but got no thread, when
`conn_stream` is bound to the next one (`Rebound`): by reference counting.
`AcceptFails` is `accept()` with no descriptor left, which is outside of the
`try`. `MaxFds` is the limit of descriptors less those the process needs
otherwise.

Abstracted: what is sent (counted), which certificate a listener uses (only
whether it verifies the client's), and the handshake itself: it is over, fails,
or lasts until the timeout.

### EchoClient and DynamicHttp

`EchoClient` has a thread per client, whose `thread[c]` is the position in
`run_tcp` or `run_udp`. For TCP, `receive()` is done in rounds of a second
(`Receive`, `Received`): a part that arrives is appended, the end of the stream
is there again in every round, and a second without anything ends it if there
are data. For UDP one datagram is one round, and `addr` is bound to its sender,
who may be anyone. `inbox` is the kernel's buffer; the end of the stream and an
error are marks in it. `DynamicHttp` adds the single-threaded HTTP server:
requests in the backlog, complete or not, from requesters that may leave; the
thread that is started, the counter of ports that is raised before, and the
answer, which may go to nobody.

A part is its kind (text, bytes, text with "close") and the peer it came from.
Several parts received in one `receive()` may arrive joined or apart: both are
sequences of parts here. The form's text is abstracted to what becomes of it.

### PcapCapture

The process table of the container: kind, parent and life of each process,
numbered in the order they start; pid 1 is nginx. `Die` models zombies, reaping
and adoption, on which `os.kill` and `poll()` depend. `at[l]` is the position of
listener `l` in `create_listener_process`, `run` and `kill_listener`. A file is
named by the tcpdump that created it, so that a file which was removed but is
still open is told from the new one at the same path. `GrepSeen` says whether
`ps` always lists the `grep` of its own pipeline.

`pkill` and `os.kill` only send their signal. A tcpdump has a handler for it:
`signalled` are those that got one, and they end some time later (`TcpdumpEnds`),
until when they go on writing. A tail, a shell and a listener leave it to the
kernel and are gone at once. The tail a crashed listener leaves to pid 1 runs
until it finds its pipe broken (`TailEnds`).

`manager[m]` is the position of manager `m`. Cron may start one while another is
not over (`SomeNotOver`; `MaxOverlaps` bounds how often), and so every test for
a file or directory and what follows from it are separate actions (`MakeDir`,
`GetTmpLog`, `RemoveTmpLog`), and the shell of `ps | grep` is a process, since
two listeners that look at the same time see each other's. `overlap` is a
history variable; most properties hold without an overlap, and say what holds
with one.

`save_pcap` and `rotate_logs` cannot be reached, since `kill_listener` never
returns (`KillListener`).

### IperfManager

`at[m]` and `pos[m]` are the position of manager `m` and that in its loop over
the ports. `server[m][p]` is the life of the iperf3 that `m` started for port
`p`: `-D` returns before the port is bound (`BindPort`, `BindRefused`), and one
that got a signal holds its port until `Exit`. `writes[m][p]` is the log file it
opened, which may not be the one at the path any more. `Rename` and `Create` are
logrotate, as `nginx/conf/nginx_logrotate.conf` configures it (`create`, without
`copytruncate`): the log is put aside under running servers, which go on writing
to it, and a new one is made. `raced` and `aborted` are history variables that
remember why a port was lost, `rotated` what was put aside.

### ServerBoot

`Server.configure()` step by step, with the two modules it calls; the traffic
rules, which `TrafficControl` has in detail, are one step with a beginning and
an end. `at` is the step, `i` the position in the loop of that step (files,
servers, scripts). State is divided by what survives: `file`, `ports` and
`entries` (the crontab) outlive a stop of the container, `ports` and `entries`
do not outlive its replacement by docker-compose (`Recreate`), everything else
is gone with the processes. A file or `ports.json` that was opened for writing
and not finished is `"part"`.

`Boot` is the entrypoint: if its run of `configure` fails (`Fail`) the container
ends. `Rerun` is `server configure [-f]` given by hand while nginx serves; its
failure leaves what was there. `Stop` happens at any step. `StartServer` only
starts a process, whose `bind()` comes later or fails (`Bind`, `StartFails`):
the shell's `&` hides which.

What each step is allowed to leave behind when it is interrupted is the point of
the module: `cut` remembers the files whose creation was interrupted, and
`FilesComplete` says that these are the only ones that are not complete after a
successful run. `Goto` and the positions abstract the five `create_file`
methods, which differ in contents only.

### UdpServers and DataService

`UdpServers` has the threads that answer datagrams, each at its step: waiting,
testing the path (`Exists`, `IsFile`), opening it, sending. It reads `present`,
the paths that exist, and leaves it to others; what is `Elsewhere` may be there or
not whenever it is looked for. `held` are the threads whose socket is bound, and
`mates[t]` those of the same process: a second process of a server that still
runs only gets the sockets nobody holds, its other threads end in `bind()`, and
those of DTLS may also end in `wrap_server` with the socket bound (`Launch`).

`DataService` takes the files and `ports.json` of `ServerBoot` for the paths,
and one more, `ForeignPath`, for all others that `get_file` accepts, which are
not checked against the root. It ties the threads to the processes that
`ServerBoot` starts: they begin when their process has bound its ports
(`Launched`), end with the container, and a run by hand that starts the servers
again changes nothing for a thread that was lost, as long as its socket is still
bound. A process of `udp_server.py` ends with its last thread, and releases its
sockets (`Release`); that of the echo servers ends by an exception in its main
loop (`Raises`). A server without a process does not serve (`ProcessEnds`).

## 3. Runs

Passing runs:

| Run | Shows | Bounds and why they are enough |
|---|---|---|
| `traffic_local` | services and filter in one container: type, classification, exact emulation, exact round trip, reachability, refinement | three groups (one `null` group, one whose default port is itself emulated), three rules with one, two and one ports; three runs, two failures: a failed run, a failed retry and a good one |
| `traffic_remote` | the filter container, with reruns in the live namespace, ignored failures and re-addressing: round trip, clean retry, the newest address wins | the same, two addresses |
| `echo_safety` | descriptors and children: isolation, leaks end, no self-blocking | one TCP client and two kill clients: a child can be forked while both kinds are open and before and after another child; one chunk each |
| `echo_service` | what comes back over chunks of every kind, answered or left unanswered; every connection is accepted or the process ends, and closed after its end | one connection of each kind; two chunks on the killable one, which is what a stale `data_str` takes |
| `tls` | no descriptor is kept; silent clients do not starve others | two listeners, three clients (two of the same listener, one without certificate), two descriptors, so that they run out with a connection still in the queue |
| `dynamic_http` | echoes are conserved, ports distinct, clients end, only a stalled requester blocks | a TCP client with three parts, UDP clients with one, two rounds of `receive()`, two ports for two UDP clients. `Quiet` and `Alone`: parts arrive only at the client of the only request, since clients share nothing but the counter of ports |
| `pcap_safety` | one tcpdump that goes on capturing, one waiting listener, which reads its own capture; what has to happen before pid 1 is signalled | three runs: a crash in the first, its orphan found by the second, the result seen by the third. One of them may overlap: two at a time and one afterwards, or one before. `Calm`: once runs have overlapped no packets come, and listeners in their loop neither read nor time out (0.7 million states) |
| `iperf` | why a port has no server, and where its report is found | two ports, so that a loop can break off between them, three managers, all of which may run at a time, and a rotation of the log at any moment (`MaxRotated`; 3.5 million states) |
| `boot_safety` | files, `ports.json`, rules, servers and cron over boots, stops, new containers, reruns and failures; a boot gets through | three files in two folders (a folder with a second file), two servers, three runs: one that is cut off, one that keeps what it left, one with `-f` or by hand |
| `data_service` | when a thread is lost over a file of the service that goes away, what brings it back | one file, `ports.json` and a foreign path, a thread for files, one for DTLS echo, and `udp_handle`; two runs: a boot and a run by hand, or two boots |

Violation runs, each a disagreement of the code with its own texts (see
`findings` in `PROJECT.json`):

| Run | What happens |
|---|---|
| `traffic_sport_fault` | a refused sport filter is not noticed: the tuple in `_add_port_filter` is always true |
| `pcap_init_killed` | a listener's crash leaves its tail to pid 1; the next listener sends SIGTERM to pid 1 (without any overlap of runs). The window is as long as the tail lives without its reader (`TailEnds`), which is short for a `tail` that watches its pipe |

Each property of a passing run has a mutant: an operator defined in front of the
one it replaces (`...Skipped`, `...Halved`, ...), which is a bug of the kind the
property is there for.

Deadlock is checked in no run: the echo server's process ends after an exception
in its loop, and the other systems stop by design when the bounds on runs,
requests or connections are used up. That a system goes on where it has to is
said by the liveness properties.

Fairness is assumed where a property is about progress, and nowhere else (the
traffic, capture, iperf and `data_service` runs, and `echo_safety`, have none):

* `echo_service`: the main loop and each handler are threads or processes that
  are scheduled, `recv()` times out, and a process whose main thread has raised
  ends once its children have; exceptions and clients owe nothing.
* `tls`: each listener's thread and each handler is scheduled, and socket
  operations time out, the handshake too, thanks to `settimeout()`; a client may
  stay silent for ever.
* `dynamic_http`: the server and the clients' threads are scheduled; a client's
  socket has a timeout, the requester's has none, and so nothing is assumed of
  a requester that has sent a part.
* `boot_safety`: the commands of `configure` return, and a server that was
  started binds its ports or ends; stops, failures, reruns and cron are free.

### Met while modelling

Two texts of the repository promise more than the code does, and no violation run
is spent on them; the passing properties state what holds:

* `src/README.md:13` has the echo server send "back to the client any received
  data". `send()` on a socket with a timeout may take a part only
  (`echo_servers.py:38`), and the rest is lost; on the kill port, the first data,
  when they are not UTF-8, are answered with the end of the connection, because
  `data_str` is unassigned (`:27`); and what `send()` raised for has no answer.
  `EchoInOrder` therefore allows an answer that is a part of its chunk, and a last
  chunk without one. That nothing else is missing, and nothing out of order, is
  what it shows.
* `src/README.md:118` has "iperf logs can be found at iperf3.log". logrotate, which
  the image installs (`Dockerfile:13`, `:51`) and cron runs, renames that file once a
  week under running servers, which go on writing to `iperf3.log.1` until a manager
  replaces them up to three hours later. `LogVisible` therefore says that their
  reports are in the file at the path or in one that was put aside.

Other behaviour that no run reports as a violation, because no text of the
repository says otherwise, or because a passing property states it as it is:

* `clear_rules` ("Wipe server rules.", `traffic_manager.py:254`) leaves the
  ingress `DROP` rules, and `# Reset current rules` (`:204`) covers tc only: a
  second run in a live namespace with local services loses packets twice.
* An empty datagram ends `udp_handle` for as long as the process runs
  (`echo_servers.py:93`; `OnlyRestartRepairs`). An exception of `accept()` or of a
  start (`:124-134`), for want of a descriptor, say, ends all listeners
  (`LoopRaises`, `StartRaises`).
* With two lines from `ps | grep` instead of three the old listener is left
  running, and `NewestOnly` fails for `GrepSeen = FALSE` (`pcap_listener.py:48`).
* The alarm of `funtion_timeout` is never cancelled and may fire outside the
  `try` (`StrayAlarm`, `pcap_listener.py:17`). When the old listener ends by
  itself between the two signals (`:56-57`), `os.kill` raises and the new one
  ends as well.
* `kill_listener` waits for a variable that nothing assigns to (`:111`), so that
  no capture is ever saved.
* After two managers overlapped, the next run on its own may signal pid 1 even
  though no exception occurred: a listener was killed by one that did not know
  of its tail yet. `os.makedirs` and `os.remove` of one manager may raise because
  of the other (`pcap_manager.py:55`, `:76`), and a listener whose log directory
  was just removed is never started, while the command with its `&` succeeds
  (`:109`).
* A file cut off by a stop is taken for complete by every later boot
  (`file_manager.py:89`; `FilesComplete` with `cut`). After the second boot of
  a container cron starts every script twice (`server_control.py:143`;
  `OverlapCause`).
* A run by hand that removes a file between the test and the open ends the file
  thread (`udp_server.py:50`; `FileLossCause`). `get_file` takes any path, so that
  a request for a log may cost the thread when a manager or logrotate removes it
  in that moment, with no run by hand at all (`ForeignPath`).
* When logrotate has renamed the log of iperf3 between test and removal and not
  made the new one yet, the manager raises at `os.remove` and starts no server,
  after it killed those of the run before (`iperf3_manager.py:27-28`; `LossCause`).
* A tcpdump that got its SIGTERM may still run, and write its own file, when the
  next one starts (`pcap_manager.py:29`; `OneTcpdump`).
* A TLS listener ends for good when `accept()` finds no descriptor, while its
  socket goes on taking connections (`tcp_tls_server.py:79`; `AcceptFails`).
* `except (..., socket.timeout)` in `echo_client.py:38` names an attribute of the
  class `socket`, which is no exception: anything raised there becomes a
  `TypeError`, which `Raise` and `ReceivesNothing` have as the end of the client.
* `isdigit()` accepts characters `int()` does not (`dynamic_http.py:88`, `:103`),
  and then a local port is used up without a client (`Start`).
* The second of two overlapping iperf managers may raise at `os.remove` and start
  no server (`iperf3_manager.py:28`), after it killed those of the first.

## 4. Proofs

All theorems hold for every value of the constants that satisfies the named
assumptions of the modules (groups and rules well-formed, rules disjoint in
their ports; connections distinct; every client has a listener; at least one
file, server and port). `FolderAssumption`, that the files of a folder follow
each other, is what the code has: the files are read from a JSON object, whose
keys, the folders, are unique.

| Module: theorem | Property | Argument |
|---|---|---|
| `TrafficControlProofs`: `TypeCorrect` | `TypeOK` | the loop positions stay in range because `NextRule`, `NextPort` and `NextGroup` test the ends; needs `Typed`, which adds where `p` and `host` matter |
| `Classification` | `NeverMisclassified` | invariant `Ownership`: a filter of class `c` belongs to a port of rule `c`, a netem qdisc of class `c` has the condition of rule `c`; disjoint rules make the owner of a port unique |
| `RetryCorrect` | `RetryStartsClean` | invariant `CleanStart`: unless something failed in this run, there is no root qdisc when `create` is reached |
| `EmulationCorrect` | `EmulationExact` | invariant `Progress`: at each `pc` the filters and netem qdiscs are those of the rules before `r`, and of the ports before `p` of rule `r` |
| `RoundTripRemote` | `RoundTripExact` for remote services | from `EmulationExact`: the condition applied twice adds up |
| `Reaching`, `NewestWins` | `ReachesService`, `NewestHostWins` | invariant `Routing`: the groups before `g` are placed (`INPUT` accepts the ports, the redirections lead to the default port or to `host`), and nothing is shaped before all groups are redirected (`TreeAfterRoutes`); a later run replaces the redirections one by one, and until then those of a port lead to one older address |
| `RoundTripLocal` | `RoundTripExact` for local services | invariant `DropsExact`: at each `pc` there is one `DROP` rule, for each protocol, for every port of the rules before `r` and for the ports before `p` of rule `r`, and none for the others; so each request is lost once |
| `Refinement` | `EmulationPromise` | `Inv = Ownership /\ Progress`; only `AddFilter` and `AddNetem` shape lanes, only `DropTree` bares them, only `ShowRules` announces |
| `EchoServerProofs`: `Isolation`, `OnlyLast`, `Leaks`, `PollSafe` | `KillIsolation`, `MainKeepsLast`, `LeaksEndWithChildren`, `PollNeverBlocks` | one invariant on descriptors: the main process holds a kill connection only while `client_sock` is bound to it, so that a fork, which comes after the assignment, cannot copy one; and at most one connection to the polling port is under way. For `Leaks`, `ThreadHolds`: the main process has no TCP connection whose thread has ended, as each is accepted once |
| `TypeCorrect` | `TypeOK` | `Typed`, with `Descriptors` and `PollRound` |
| `EchoedBack` | `EchoInOrder` | invariant `InOrder`: a connection waits in one queue, once, and has no handler before it is accepted, so that its handler starts once and what it received and answered is that of one handler |
| `TlsServerProofs`: `LeakFree`, `TypeCorrect` | `NoLeak`, `TypeOK` | `Places`: a connection without handler is in one queue once, or in one handshake, so that a listener's `client_sock` is never one that another step releases; then every descriptor is `Used` |
| `IperfManagerProofs`: `LossExplained`, `LogFound`, `TypeCorrect` | `LossCause`, `LogVisible`, `TypeOK` | `Covered`: for each port there is a server that is alive, a manager that will start one, or an entry in `raced` or `aborted`; a manager that finds the log file gone ends, but the one that removed it goes on, or did and covered the ports, or logrotate took the file and the ports are in `aborted`. `OneByOne`: without overlap, a manager that removes the log has no server alive, and only logrotate takes a log from one that is, which is then in `rotated` |
| `ServerBootProofs`: `TypeCorrect`, `Complete` | `TypeOK`, `FilesComplete` | `Filed`: a part of a file is in `cut` or being written, and the files behind the loop are there; with `-f` a folder is cleared before any of its files is behind the loop, by `FolderAssumption` |
| `Published`, `Shaped` | `PublishedWhenServing`, `ShapedWhenServing` | `Phases` (nginx and cron run together, and a run is by hand just if they do) and `Ordered`: what precedes the present step is done |
| `AllScheduled`, `OverlapExplained` | `EveryScriptScheduled`, `OverlapCause` | `Scheduled`: the scripts behind the loop have an entry, and of the processes of a script at most one is the run's own and the others are at most one for each entry |
| `DataServiceProofs`: `ServiceTypeCorrect` | `ServiceTypeOK` | from `TypeCorrect` of the boot, and that a process that stops serving takes its threads with it |
| `LossByHand`, `LostForGood` | `FileLossCause`, `OnlyRestartRepairs` | `Threading`: a thread that has tested a path of the service finds it present, unless a run by hand is the cause; while servers answer, only such a run removes paths, by `Ordered` of the boot. `Joint`: the sockets of a process are bound together and released together. `Bounden`: a thread that had a socket and lost it is one of a process that has ended, so that any other is not started again |
| `PcapCaptureProofs`: `SingleCapture` | `OneTcpdump` | `OneRun`: a run is a manager, then the listener it started, then the tcpdump that one starts and that was not told to end; without overlap there is one of the three in all, and `Clean` makes it so again after an overlap. `Fresh` and `Named`: the next tcpdump finds no file at its path, hence none that an old one, which may still run, has open |
| `TypeCorrect` | `TypeOK` | `Table`: processes are numbered without gaps (`Numbered`), and at most as many as the managers that are over and the listeners that are past each of their three forks, so that a number is left whenever one is needed; `Kin` has who is whose parent, and that what a listener calls its tcpdump and its tail are that |
| `OwnCapture` | `ReadsOwnCapture` | `Captured`: one listener starts at a time, its tcpdump runs, and the file at `tmp_log` is none or the one this tcpdump created; needs that the number of a tcpdump is not that of an earlier one |
| `RootSpared` | `InitKilledByOrphan` | `Hunt`: the shell of `ps` is younger than all tails, so that the first line is a tail if there is one (`Shells`); the victims are that tail and the listener that knows it, or pid 1 (`Hunters`), and a tail that runs has a listener unless an exception ended it (`Adopted`) |
| `OneListener` | `NewestOnly` | `Newest`: at most one tail and one old listener, older than the one that starts; as the list has its shell and its grep, a tail makes three lines, and so both get their signals before the new one waits. `Served`: what a manager has seen of the directory and the file is still so when it acts, so each run that is over has started its listener, and a signal never ends the last one |
| `DynamicHttpProofs`: `Distinct` | `PortsDistinct` | `Counted`: the counter is above every port that was given, strictly while one is taken |
| `TypeCorrect`, `Conservation` | `TypeOK`, `EchoConserved` | invariants `Http` of the server and `Talk` of each client: the marks of an error or of the end of a stream only come last (`Stream`), a client that is not connected has nothing (`Holds`), what a client with echo holds is from the peer in `addr` (`Returns`), and what it said, holds and has not read is what arrived |

`EmulationCorrect`, `RoundTripRemote` and `Refinement` assume `"sport" \notin
MayFail`; without it they are false (`traffic_sport_fault`). `RoundTripLocal`
assumes that too, and that a container is new at each run (`~Live`: in a live
namespace the `DROP` rules of an earlier run are left, see above) and that no
rule names a port twice (`PortsOnce`). `Reaching` assumes that with local
services no port is in two groups of a protocol (`GroupsApart`). The
configuration files of the repository and the instances of the runs satisfy both.
`OneListener` assumes `GrepSeen`, as `pcap_safety` does: when `ps` is done before `grep` has
started, there are two lines, the old listener is left, and the property is
false; `RootSpared` and the others hold in either case. The theorems about
`PcapCapture` hold for either value of `Calm`, and for packets that come while
runs overlap.

Only model-checked: liveness (`Accepted`, `KilledIsReset`, `ClosedIsReleased`,
`ComesUp`, `NotStarved`, `ClientEnds`, `OnlyStalledBlocks`), which is out of the
prover's reach, as it needs fairness and `ENABLED`. Every invariant, every action
property and the refinement that a passing run checks is also the subject of a
theorem, `RoundTripExact` of two, one for each place of the services.

## 5. Not modelled

`port_range_to_ports` (never called), configuration files (constants), logging,
the contents of data files and the segments they are sent in (numerical),
`save_pcap` and `rotate_logs` (unreachable), the loop of the pcap manager over
the ports (their listeners share only `pkill` and the directories),
`server test` (`nginx -t`, no state), third-party servers and their
configuration (but for what logrotate does to the log of iperf3), the HTML page,
scripts that are run by hand.

Three hazards have no property, since what they warn of is what the code does,
and a property that expected otherwise would fail: that `kill_listener` does not
return (`pcap_listener.py:111`), that a second run in a live namespace with local
services appends its `DROP` rules to those of the first (`traffic_manager.py:161`),
and that the old listener is missed when `ps` is done before its `grep` has started
(`pcap_listener.py:46`). Nor is a server that fails to start noticed at a boot
(`server_control.py:85`), and no property demands that it is.

## 6. Plan

1. Proofs: what holds of `PcapCapture` after an overlap (`overlap = "past"`),
   where only `OneTcpdump` is stated.
2. A composition of the filter and services containers, with `Emulation` as the
   abstraction of the traffic rules.
3. `PcapCapture` with two ports, for `pkill`, which ends the tcpdumps of all.
