# TLA+ models of splab: the malloc lab allocators and the proxy's threads

This directory holds TLA+ modules and TLC configurations for four parts
of the repository:

* the explicit-list, red-black-tree allocator in
  `src/malloclab-handout/mm.c`, and its earlier copy `mm_miss.c`;
* the naive first-fit allocator in `src/malloclab-handout/mm_.c`;
* the web proxy in `src/proxylab-handout/proxy.c`: its threads, and the
  byte-level relay and parsers they call.

Every definition is translated from those files. `PROJECT.json` maps each
definition to the lines it models, lists the runs, the mutants that show each
property can fail, the findings and the hazards.

## The system

`mm.c` manages one heap obtained from `mem_sbrk`:

* **MM_Data** (24 bytes at `mem_heap_lo`) holds the tree root and the shared
  NULL sentinel node.
* **The segment list.** After MM_Data, segments follow each other in address
  order. Each has an 8-byte header with `prev`, which points to the previous
  segment's header (the "footer"), a 29-bit `size` in 8-byte units, and the
  `alloc`, `color` and `null` bits. The list ends at a header of size 0 just
  below the break. A free segment also stores `left` and `right` tree links
  after its header.
* **The free-segment index** is a red-black tree of the free segments, keyed
  by `mm_cmp_node`: size first, then address. `mm_search_node` finds the
  least segment that is large enough (best fit). Insertion and deletion are
  recursive, and they re-balance on the way back up. Deletion uses a
  `balance` flag, with `mm_delete_left`/`mm_delete_right` as the mirror
  fix-ups, and a "target mode" that unlinks the successor.
* **Operations.**
  * `mm_init` lays out MM_Data and the end header.
  * `mm_malloc` does a best-fit search. On a miss it calls `mm_sbrk`, which
    grows by at least `MM_UNIT` = 144 bytes and splits. On a hit it does
    `mm_delete` then `mm_frag_node`.
  * `mm_free` coalesces with the previous and next free segments and
    inserts the result.
  * `mm_realloc` handles NULL, size 0, shrink in place (split), grow in
    place by absorbing following free segments, grow at the end of the heap
    via `mm_sbrk`, and relocation (malloc, copy, free).
* `mm_check` walks the list (back-pointer consistency, free count) and the
  tree (BST order, no red-red, count match).

The allocator is single-threaded. Each call runs to completion, so one call
is one atomic step of the model.

`mm_miss.c` is an earlier copy of `mm.c`. Its tree, `mm_init` and
`mm_free` are the same. Its `mm_malloc` grows the arena by exactly the
request and writes the new end header itself. Its `mm_realloc` tests
"the look-ahead stopped at the end header" before "the free run is too
small".

`mm_.c` is a simpler allocator with the same interface.

* Each block starts with a size field.
* The free blocks form a doubly linked list between the `head` and `tail`
  sentinels of `MM_Head`.
* `mm_malloc` takes the first free block that fits. It cuts the request off
  the block's end, takes the block whole, or grows the arena with
  `mm_new_node`.
* `mm_free` walks the whole list to find the free blocks just before and
  after the block. It merges them, or else links the block in before
  `tail`.
* `mm_realloc` is malloc, then copy, then free.

`proxy.c` is concurrent. Its threads work as follows:

* `main` accepts a connection and copies the client's address into a
  malloc'd bundle. It then starts a detached thread running `process`.
* The thread reads and parses the request line, then calls
  `open_serverfd`. That function resolves the host with `gethostbyname`
  under the `syscall` mutex, copies the address and connects.
* The thread relays the request and the response. `readline` reads one
  byte at a time up to a newline or `MAXLINE` bytes. `relay_header` copies
  lines up to the empty line and notes `Content-Length`. `relay_content`
  copies that many bytes, or up to end of file, through a `MAXLINE`
  buffer.
* If anything reached the client, the thread formats a log line under the
  `logfile` mutex, writes it to stdout and to `proxy.log`, and unlocks.
* Finally it closes both sockets and frees its bundle.

## Modules

| Module | Models | State | Actions / operators |
|---|---|---|---|
| `MMTree` | `mm_cmp_node` … `mm_delete` (mm.c 132–477), `mm_check_node` | none (operators) | `Cmp`, `Rotate(t,now,d)`, `Search`, `InsertNode` with `InsertFix`, `DeleteNode` with `DeleteMin` (target mode), `DeleteFix` = `DeleteNear`/`DeleteFar`, `MmInsert`, `MmDelete`; shape checks `IsRBTree`, `TreeNodes`, reference `BestFit` |
| `AbstractIndex` | what the index promises | `free`, `lastOp` | `Insert`, `Delete`, `Find` (answer = least fitting by `mm_cmp_node` order) |
| `FreeIndex` | the tree driven by its three wrappers | `tree`, `root`, `lastOp` | `Insert`, `Delete`, `Find`; refines `AbstractIndex` with `free <- TreeNodes(tree, root)` |
| `MMAllocator` | the whole allocator | `hdr`, `tree`, `root`, `brk`, `client` | `Malloc(n)`, `Free(p)`, `Realloc(p,n)` (also `Realloc(NULL,n)`), built from `FragNode`, `MmSbrk`, `MmMalloc`, `MmFree`, `FreeRun`, `Coalesce`, `MmRealloc`; the checker `MmCheck` with `ListCheck` and `MmCheckNode` (no run checks it on its own: it follows from `ListIntegrity`, `IndexMatchesFreeList` and `IndexIsRBTree`) |
| `AbstractAllocator` | what an allocator promises its client (spec.md §4–5) | `blocks` (ptr → bytes and payload interval), `top` | `Alloc`, `Release`, `Resize` = `ResizeInPlace` / `ResizeMove`; used only through INSTANCE |
| `MMSbrkFail` | `mm.c` when `mem_sbrk` fails | `MMAllocator`'s variables and `fault` | `MMAllocator`'s `Next`, plus `MallocFails` and `ReallocFails` when the break would pass the heap limit |
| `MMNaive` | `mm_.c` | `size`, `free` (a sequence, head first), `brk`, `client` | `Malloc`, `Free`, `Realloc`, built from `NewNode`, `FirstFit`, `MallocAt`/`CutAtEnd`, `PrevFree`/`NextFree`, `FreeNextBlock`, `FreePrevBlock`, `MmDeleteNode`, `MmInsertNode` |
| `MMMiss` | `mm_miss.c`, extending `MMAllocator` | `MMAllocator`'s | `MissMallocCall`, `MissFreeCall`, `MissReallocCall`, built from `MissFragNode`, `MissGrowEnd`, `MissMalloc`, `MissEnd`, `MissGrow`, `MissRealloc` |
| `ProxyRelay` | `readline`, `relay_header`, `relay_content`, `parse_request`, `parse_response` and the response relay of `process` | none (operators over streams) | `ReadLine`, `RelayHeader`, `RelayContent` (RECURSIVE), `ParseRequest`, `ParseResponse`, `ResponseFaults`, `HasBody`, `ResponseRelay` (with what `buf` holds after the status line); reference `OwedBody` and the table `RelayOwed` |
| `ProxyThreads` | `proxy.c`'s `main` and `process` | `mainpc` (also "start", "exited", "crashed"), `size`, `client`, `data`, `pc` per thread, `request` (host and method), `hostent`, `server`, both mutexes, `stdout`, `logfd`, open sockets | `StartUp`, `Accept`, `Create`, `CreateNoMem`, then per thread `ReadRequest`, `LockSyscall`, `GetHostByName`, `CopyAddress`, `Connect`, `Relay`, `LockLogfile`, `FormatLogEntry`, `PrintLog`, `WriteLogFile`, `CloseServer`, `CloseClient`, and the faults `RequestFaults`, `RelayFaults` |
| `MCFreeIndex`, `MCAllocator`, `MCSbrkFail`, `MCNaive`, `MCMiss`, `MCProxy` | model values and bounds | | |

How the code maps to the model:

* **Trees.** A tree is a record `[l, r, c]` of functions from node (header
  address) to left child, right child and color. `NullNode` plays
  `data->null`. The two mirror functions of each pair (rotate, delete
  fix-up, insert cases) are one operator with a direction parameter `d`.
* **Recursive tree operators** return `[t, n, bal, tgt]`: the new tree, the
  new subtree root (the C return value), and the `*balance` and `*target`
  out-parameters.
* **Heap values.** In `MMAllocator`, a heap value
  `H = [hdr, tree, root, brk]` is threaded through operators, one per C
  function. A handler is therefore its exact chain of calls, including the
  trailing `prev` fixes and `mm_insert`. Addresses are 8-byte units from
  `mem_heap_lo`. The first header is at `FIRST` = 3, and the end header is
  at `brk - 1`. `client` maps each block the client holds to the byte count
  it asked for.
* **One step per helper.** Each intermediate result of a C function is
  handed to a small operator for the next step of the function (`Link` for
  "now->left = recursive call", `FixUp`, `Splice`, `PaintRoot`,
  `FreePrev`/`FreeNext`/`FreeInsert`, `MallocFound`, `Grow`, `EndGrow`, …).
  It is not bound by a LET and read several times. The helpers follow the
  order of the C statements, and TLC's coverage profiling stays linear in
  the size of the spec.
* **Data abstraction.** Client data and `mm_memcpy` are not modelled. The
  properties are about layout, not contents.
* **Refinement.** `MMAllocator` and `MMNaive` each instantiate
  `AbstractAllocator`. The mapping sends `blocks` to the client's blocks:
  the bytes asked for, the payload start and length from the header, and
  `top` from the break. The abstract `Spec` is then checked as a PROPERTY.
* **mm_.c** is modelled for the same 32-bit build that `mm.c` names:
  * the size field is 1 unit (`ALIGN(sizeof(size_t))`);
  * a free node needs 2 units (`ALIGN(sizeof(MM_Node))`);
  * `MM_Head` takes 3 units.

  The free list is a sequence, and `Remove`/`Append` from SequencesExt
  play `mm_delete_node`/`mm_insert_node`. `mm_free` keeps the *last* match
  of its walk, which is `SelectLastInSeq`.
* **mm_miss.c.** `MMMiss` extends `MMAllocator` and redefines only what
  differs. `MissEnd` is the end branch of `mm_realloc`: `last->size +=
  size - sum` and a new end header after `last`. `mem_sbrk` gets an `int`
  increment, so when `sum > size` it is negative, memlib refuses it, and
  the break stays where it was.
* **proxy.c streams.** In `ProxyRelay`, what `read()` returns on a socket
  is a sequence of symbols, one per byte, up to end of file. A final `ERR`
  symbol makes `read()` fail. A word the code compares or converts as a
  whole (a method, `http://`, a status code, a `Content-Length` line
  start, a host) is one symbol. `readline`, `relay_header` and
  `relay_content` are RECURSIVE operators that follow the C loops byte by
  byte, including `relay_content`'s flush of a full buffer. Writes are
  taken to succeed, as `writebuf` loops until the buffer is written.
* **proxy.c threads.** Each thread has a program counter over the points
  of `process`, and each step is one action. A connection is a model value
  and also stands for its client's address.
  * `ReadRequest` reads a request stream with `ReadLine` and parses it
    with `ParseRequest`.
  * `Relay` relays a response stream with `ResponseRelay` and goes on to
    log if the sum is non-zero.
  * `RequestOutcomes` collects the outcomes of the request read once, as
    they depend only on constants. `ReadDone` stores the relay outcomes of
    the request's method and `buf`, from `RelayOutcomes`, and `Relay`
    chooses among them.
  * `main` starts in "start". `StartUp` either reaches the accept loop or
    exits, when a call of `open_proxyfd` or `fopen` fails.
  * The constant `Failures` names the failures of the environment a run
    admits: a failed start-up, a `malloc` of the bundle that returns NULL
    (`CreateNoMem`; `data->sockfd = newfd` then faults), and a client
    that hangs up before its response is written. Nothing in `proxy.c`
    ignores SIGPIPE, so the write kills the process (`RelayFaults`).
  * `readline` never writes a NUL, so `parse_request` reads on into
    stale stack bytes. This undefined behaviour is a choice from
    `StackGarbage`. The thread keeps `buf` as the request left it, and
    `parse_response` reads the status line and then the rest of that
    `buf` (`StaleAfter`). A status line with no space faults only when
    neither it nor those stale bytes hold a space. Otherwise `msg` is 0
    and no body is relayed. The model keeps, per thread, the set of relay
    outcomes that `buf` allows (`request[t].relay`), and empties it once
    the status line has overwritten `buf`.
  * A `strchr` that returns NULL in `parse_request` or `parse_response`
    is a segmentation fault. `Fault` sets `mainpc` to "crashed", which
    stops every thread, and the kernel closes every socket.

  The value of `main`'s uninitialized `size` is undefined behaviour. It is
  an initial choice among "valid", "small" and "negative", with the effect
  each one has on Linux's `accept`.

## Runs

| Run | cfg | Expect | Checks |
|---|---|---|---|
| free_index | MCFreeIndex.cfg | pass (17 710 states) | `TypeOK`, `IndexIsRBTree`, `ImplementsAbstractIndex` |
| allocator | MCAllocator.cfg | pass (63 628 states) | `TypeOK`, `ListIntegrity`, `IndexMatchesFreeList`, `IndexIsRBTree`, `ClientBlocksIntact`, `ImplementsAbstractAllocator` |
| allocator_grow | MCAllocatorGrow.cfg | pass (139 564 states) | the same, without `TypeOK` (the small run checks it) |
| zero_malloc | MCAllocatorZero.cfg | violation | `FreeNodeFits` |
| sbrk_failure | MCSbrkFail.cfg | violation | `GrowthFailureReported` |
| naive | MCNaive.cfg | pass (3 360 states) | `TypeOK`, `HeapTiles`, `FreeListPartition`, `NoAdjacentFree`, `FreeNodeFits`, `ImplementsAbstractAllocator` |
| naive_resize_zero | MCNaiveResizeZero.cfg | violation | `ImplementsAbstractAllocator` |
| miss_realloc_end | MCMiss.cfg | violation | `ListReachesBreak` |
| proxy | MCProxy.cfg | pass (472 749 states, about 2 min) | `TypeOK`, `ConnectsToRequestedHost`, `LogsAgree`, `LogNamesClient`, `NoLeakedSocket`, `RelayDeliversResponse`, `ServedUnlessCrashed` (liveness) |
| proxy_create_leak | MCProxyCreateFail.cfg | violation | `NoLeakedSocket` |
| proxy_addrlen | MCProxyAddrLen.cfg | violation | `EveryConnectionServed` |
| proxy_bad_request | MCProxyBadRequest.cfg | violation | `EveryConnectionServed` |

The properties:

* **IndexIsRBTree** / **IsRBTree**: the tree reachable from `root` is a
  red-black tree. That means unique parents, BST order by `mm_cmp_node`, a
  black root and black NULL, no red-red edge and equal black height. This is
  stronger than `mm_check_node`, which never checks black height.
* **ImplementsAbstractIndex**: every insert/delete/search sequence on the
  tree is a behaviour of a best-fit set. In particular `mm_search_node`
  returns the least fitting segment, not just some fitting one.
* **ListIntegrity**: walking from `FIRST` by `size` visits exactly the
  headers in `hdr`, each `prev` is the previous header, and the walk ends at
  the size-0 header at `brk - 1`. This is `mm_check`'s list check made
  exact.
* **IndexMatchesFreeList**: the tree holds exactly the free segments of the
  list. This is `mm_check`'s count check, made a set equality.
* **ClientBlocksIntact**: every block the client holds is an allocated
  segment on the list, large enough for the bytes it asked for.
* **NoAdjacentFree** (`mm_.c`): no two neighbouring blocks are both free.
  `mm.c` breaks it by design (see the hazard at mm.c:788), so it is not
  checked there.
* **FreeNodeFits**: every free segment has room for its tree links.
* **ListReachesBreak** (`mm_miss.c`): the walk by size from `FIRST`
  meets every header and ends at the end header at `brk - 1`.
* **ImplementsAbstractAllocator**: every sequence of calls is a behaviour of
  `AbstractAllocator`. Live payloads never overlap, and each one holds the
  bytes asked for. A call changes no other block. A relocating realloc
  takes a block that overlaps neither the other blocks nor the old payload
  it copies from. `resize(p, 0)` releases `p`.
* **GrowthFailureReported**: no call writes through `mem_sbrk`'s failure
  value.
* **HeapTiles** (`mm_.c`): the size fields lead from the end of `MM_Head`
  block by block exactly to the break.
* **FreeListPartition** (`mm_.c`): every block is either on the free list,
  exactly once, or held by the client, and never both.
* **ConnectsToRequestedHost**: every thread connects to the host its own
  request names, although all threads share `gethostbyname`'s static
  result.
* **LogsAgree**: stdout and `proxy.log` receive the same lines in the same
  order. They differ at most by the line of the thread between its `printf`
  and its `fprintf`.
* **LogNamesClient**: every line of `proxy.log` shows the address of the
  client it is about, although `main` overwrites its `client` struct on
  each accept.
* **NoLeakedSocket**: every open socket belongs to `main` (just accepted)
  or to a thread that has yet to close it.
* **RelayDeliversResponse**: a thread past its relay step hands its client
  the status line, the header up to its empty line, and exactly the body
  HTTP owes it for its request's method. This is checked for every
  response of a bounded shape: every status code of the table (1xx, 200,
  204, 304, 404), up to two header fields (none, a plain one, or
  `Content-Length` 1 or 2, the last one winning), and a body of 0 to
  `MAXLINE + 1` bytes, so that `relay_content` flushes a full buffer.
  `RelayOwed` compares `ResponseRelay` with the reference `OwedBody`.
  It is a constant table, which TLC evaluates once.
* **ServedUnlessCrashed** (liveness): every connection that reaches the
  proxy eventually has its thread run to the end of `process`, unless
  the process has died.
* **EveryConnectionServed** (liveness): the same, without the exception.

What the violations show (see `findings` in PROJECT.json):

1. **Zero-size blocks (mm.c:695).** `malloc(0)` yields a 1-unit segment.
   Freed between two allocated blocks, it becomes a tree node whose
   `left`/`right` words lie inside the next segment's header.
2. **Unchecked mem_sbrk (mm.c:556).** When the heap limit is reached,
   `mm_sbrk` writes `ptr->size` through `mem_sbrk`'s `(void *)-1` minus 8.
   The program faults where spec.md wants OutOfMemory returned. The limit
   leaves room for one `MM_UNIT`: a first call takes it (brk 4 -> 22, for
   `malloc(136)` or `malloc(8)`), and the next call that misses the index,
   such as `malloc(136)`, faults. Which first call TLC reports varies with
   the order its workers explore.
3. **realloc(p, 0) in mm_.c (mm_.c:220).** It calls `mm_malloc(0)` and
   returns a new minimum block. spec.md says resize(ptr, 0) is
   release(ptr).
4. **realloc at the end in mm_miss.c (mm_miss.c:632).** The end branch is
   taken whenever the look-ahead stops at the end header, even when the
   free run already covers the request. `last->size += size - sum` then
   shrinks the last segment, and the new end header lands inside the
   arena. TLC reports one of two short traces, depending on the order its
   workers explore: `malloc(24); realloc(3, 8); realloc(3, 16)`, or
   `malloc(8); malloc(8); free(5); realloc(3, 16)`. In both, block 3 is
   followed by a free run that ends at the end header and covers 16 bytes.
5. **Socket leak (proxy.c:119).** When `pthread_create` fails, `main` frees
   the bundle but never closes the accepted socket.
6. **Uninitialized addrlen (proxy.c:103).** `size` is never initialized.
   * If it is negative, every `accept` fails with EINVAL and no connection
     is ever served.
   * If it is small, the first client's logged address is partly garbage.
     The proxy run assumes a valid value.
7. **Unchecked strchr in parse_request (proxy.c:239).** A request line
   with no space, or an absolute URI with no space after it, gives
   `strncpy` a length of about 4 GB. The whole proxy faults and every
   client's connection is dropped. Whether the second `strchr` finds a
   space depends on the stack bytes after the unterminated line.

Every property of every passing run has a mutant in PROJECT.json: an
operator beside the mapped one that makes a plausible mistake (the root
left red, the balance flag ignored, a missing `prev` fix, a tree delete
skipped, a look-ahead that ignores `alloc`, and so on). TLC finds each one.

## Bounds and why they are enough

* **free_index.** There are 8 segment addresses with sizes 2..6. Sizes 2
  and 4 repeat, so the address tie-break of `mm_cmp_node` matters. Queries
  run over 1..7, which covers a miss, an exact hit and a larger fit. Eight
  nodes allow trees of black height 3 and every deletion fix-up case in
  both directions.
* **allocator.** Requests are {8, 24, 40, 136} bytes, that is 2, 4, 6 and
  18 units. 136 bytes is exactly one `MM_UNIT`, so it takes the
  `size >= MM_UNIT` branch of `mm_sbrk`. The arena is bounded by one
  `MM_UNIT` growth (`MaxArena` = 22 units), and the client holds at most
  4 blocks. Within this, every handler branch is reached: hit with and
  without a split, sbrk growth, free with every combination of free
  neighbours, and realloc shrink, in-place grow, grow at end and
  relocation.
* **allocator_grow.** Requests are {8, 136} bytes and the arena is bounded
  by two `MM_UNIT` growths (40 units). This reaches growth after
  fragmentation and realloc growing at the end of the heap through
  `mm_sbrk`.
* **zero_malloc.** Requests are {0, 8} bytes.
* **sbrk_failure.** Requests are {8, 136} bytes, with a heap limit of one
  `MM_UNIT` growth. After the first call takes that unit, a 136-byte
  request must grow.
* **naive.** Requests are {8, 16, 24} bytes, that is 2, 3 and 4 units, and
  realloc sizes are {8, 24}. The arena is `HEAD` + 12 units and the client
  holds up to 3 blocks. This reaches:
  * a 4-unit free block cut for a 2-unit request, and a 3-unit one taken
    whole;
  * free with no free neighbour, with either one, and with both;
  * realloc to a larger and to a smaller size.
* **miss_realloc_end.** Requests are {8, 16, 24} bytes, the arena is
  `FIRST` + 11 units and the client holds at most 3 blocks. TLC finds a
  violating trace of three or four calls within about 100 distinct states.
* **proxy.** There are 3 connections and 2 hosts, and `MAXLINE` is 9.
  * Two threads can contend for a mutex while a third is elsewhere.
  * A thread can format its log line after `main` has accepted the next
    connection.
  * A lookup can be overwritten by a different host.
  * Request streams: end of file, a GET on `h1`, a HEAD on `h2`, a GET on a
    name no host answers to, a relative URI, a URI with no version, and a
    line with no space. They reach every branch of `process` up to the
    relay, and both faults of `parse_request`.
  * The stack bytes after the line are a NUL, or a space and more, in the
    violation runs. In the proxy run they are a NUL, one of the outcomes
    the build can produce. With both, the liveness check takes over 7
    minutes.
  * Response streams: the server closes at once, a 200 with a body, or a
    6-byte status line with no space. It is longer than the request
    line up to its second space, so `parse_response` reads the request's
    version and CR LF, and then the NUL, and faults. A shorter one would
    find the request line's space.
  * `Failures` is all three kinds in the proxy run, and none in the
    violation runs, so that each of those shows its own cause.
  * `MAXLINE` = 9 fits every line above. `RelayDeliversResponse` takes
    bodies up to `MAXLINE + 1` bytes, so a buffer flush happens.
  * The runs end when all connections are served; `main` then blocks in
    `accept` forever, so deadlock checking is off for these runs only.

Larger arenas blow the state space up without adding new branch
combinations. Realloc shrink leaves un-coalesced fragments, so the number of
layouts grows quickly.

## Fairness

**Allocators.** None is assumed, and all of their properties are safety
properties. An allocator is a library: whether the client keeps calling it
is not the allocator's business. Every call terminates, because the
recursions follow a finite tree or list. Deadlock checking stays on: the
client can always call free or realloc on a block, or malloc while under
the bound.

**proxy.c.** `Spec` has weak fairness on `StartUp`, `Accept`, `Create` and each
thread's steps.

* The first two say that clients keep connecting and that `main` is
  scheduled. Together with the threads' fairness, they say that the
  pthreads scheduler eventually runs every runnable thread.
* A mutex needs no strong fairness here. Each thread takes each mutex at
  most once, there are finitely many threads, and every holder releases it
  within a bounded number of its own steps.
* Weak fairness of the I/O steps assumes that every socket call eventually
  returns, with data or an error. The code has no timeout, so a silent
  peer breaks this assumption (see hazards).
* A fault disables every thread and `main`. That is why the liveness
  property of the passing run is `ServedUnlessCrashed`.

## Not modelled

* **memlib.** Its source is not in the repository. `MaxArena` plays its
  heap limit. `MMSbrkFail` models a failing `mem_sbrk` for `mm.c`.
  `MMNaive` only bounds the arena, because `mm_new_node` has the same
  unchecked write (hazard at mm_.c:65).
* **realloc(NULL, n) on mm_.c.** It reads the size field at NULL - 8. That
  is undefined behaviour with no outcome the model could choose, so the
  modelled client does not make that call.
* **proxy.c start-up details and the request side of the relay.** The
  start-up is one step: every failure of `open_proxyfd` or `fopen` ends in
  `exit`, and the process's sockets close with it. The relay of the client's header and POST body to the end
  server is not modelled: `process` ignores its results. Neither is the
  port number, or a write that fails.
* **Client payload contents and mm_memcpy.**
* **The 29-bit size field.** It cannot overflow within the driver's
  `MAX_HEAP`, and the model's sizes are tiny, so widths are not kept.
* **rb.c.** It is an unfinished draft of the tree: `mm_malloc` and
  `mm_delete_delete_node` have empty bodies. Its insert and rotations are
  those `MMTree` models for `mm.c`.
* **mm_miss.c beyond its first corruption.** After the end branch
  overshoots, the list is broken and later calls read headers that are
  not there. `MMMiss` therefore has only a violation run.

## Plan

Done:

* Sitting 1: `MMTree`, `FreeIndex` refining `AbstractIndex`, and
  `MMAllocator` with its runs.
* Sitting 2:
  * `AbstractAllocator`, with `MMAllocator` refining it;
  * `MMSbrkFail` (the unchecked `mem_sbrk`);
  * `MMNaive` for `mm_.c`, refining the same abstract allocator;
  * `ProxyThreads` for `proxy.c`, with the first liveness property.
* Sitting 3:
  * `MMMiss` for `mm_miss.c`, with its realloc end-of-heap violation;
  * `ProxyRelay`, the byte-level readers and parsers of `proxy.c`;
  * the threads now read and relay real streams, and they can crash.

* Sitting 4:
  * `MmCheck`, the code's own `mm_check`, translated as written;
  * the proxy's start-up, the unchecked `malloc` of the bundle, and
    SIGPIPE from a client that hangs up.

Next:

1. **An action property for realloc in mm.c.** When the following free
   segments suffice, realloc should grow in place (spec.md, section 6).
2. **The request side of the relay** (`relay_header` and `relay_content`
   from client to end server for a POST).
3. **Larger proxy instances**, possibly with symmetry over hosts for the
   safety runs.
