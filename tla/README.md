# vm_attest in TLA+

A verification development for `vm_attest`: a CAmkES/seL4 system in which a
component outside a Linux guest measures the guest's memory on request. The
modules are written from the source code in `src/`; paths below are relative to
`src/vm_attest/` unless they start with `src/`. `src/vm_measure` is a second copy
of the application whose component sources differ in comments only (its
assembly comments the connections out and it adds a small kernel module); the
modules stand for both. `PublishedPort`, `Handshake` and `ElfScan` are mapped to the
copy, all others to `src/vm_attest`.

Contents: [the system](#1-the-system) · [hazards](#2-what-is-hard) ·
[modules](#3-modules-and-how-they-correspond-to-the-code) ·
[runs](#4-what-the-runs-show) · [fairness](#5-fairness-and-deadlock) ·
[proofs](#6-what-is-proved) · [findings](#7-where-code-and-words-disagree) ·
[not modelled](#8-what-is-not-modelled) · [plan](#9-plan)

## 1. The system

| component | state | operations | talks to | correct when |
|---|---|---|---|---|
| **Guest and VMM** (`src/cross_vm_connection.c`, `vm_attest.camkes`) | the vCPU, the device `introspect_vm` with its event register, the two notifications | guest: emit, wait, store to memory; VMM: `sys_ipa_to_pa`, `consume_callback` | IntrospectManager, by the events `ready` and `done` and the shared memory `memdev` | every request reaches the manager and every `done` the guest, as an event and an interrupt; wake-ups are bounded by passes |
| **IntrospectManager** (`components/IntrospectManager/`) | `Linux_Mem` (a static copy of guest memory), `ELFList`, header tables, the heap | one endless loop in `run()`: wait, copy, scan, read tables, print, free, signal twice | VM, as above | it measures what the guest's memory held after the request, reports every ELF image once, gives its memory back, answers every request |
| **Sampling port** (`components/Router/sampling_ports/`) | a shared page: one message and a sequence number | `init_sp_int8_t`, `write_sp_int8_t`, `read_sp_int8_t` | one writer, many readers, shared memory only | a read never mixes two messages, fails only for cause, and its number shows rereads and drops |
| **CakeServer** (`components/CakeServer/`) | a flag, a semaphore, a port, the notification's callback | the callback; the CakeML loop wait / read / sign / write / emit | a peer, by a dispatch notification, a port and a `ready` event | no dispatch is slept on or lost; the reply signed is the reply to the request |
| **KeyManager** (`components/KeyManager/`) | two virtqueues | `msg_wait_callback`, `issue_key` | a client through two virtqueues | every request is answered with one key; buffers come back |
| **Router** (`components/Router/`) | none | `run()` prints a line; `read.c`, `write.c` are guest tools on a dataport | guest device files | what is written is what is read |
| **CakeServer dataport functions** (`components/CakeServer/cache/system/dataports/`) | descriptors and mappings | `dataport_read`, `dataport_write`, `ffiemit_event`, ... | guest device files | descriptors are given back |
| **RAM dataport** (`src/init_dataport_ram.c`) | the pages mapped so far | `dataport_memory_iterator` | the VMM's RAM, `memdev` | each page of the guest is the frame of `memdev` at its offset |
| **poke module** (`src/vm_measure/modules/poke/`) | one character device | load, unload | the guest kernel | |

The request path: the guest program stores to the emit register; the store
traps; the VMM's `sys_ipa_to_pa` emits `ready`; the manager's `ready_wait`
returns; the manager copies 100 MB of guest memory while the guest runs on,
looks for ELF images in the copy, reads and prints their header tables, frees,
and signals `done` with `done_emit_underlying()` and again with `done_emit()`;
the VMM's `consume_callback` turns the badge into an event and an interrupt for
the guest; the guest program's read of the device returns.

## 2. What is hard

`PROJECT.json` lists each hazard with its line and the properties that watch it.
The groups:

* *interleavings of single memory accesses* between the sampling port's writer
  and readers, and between the callback and the main thread of CakeServer;
* *merged signals*: a seL4 notification is a word of flags, so requests made
  while the manager is busy, and the two `done` signals of a pass, may merge or
  may not, and a leftover `done` may be taken for the answer to a later request;
* *a moving target*: the guest has two virtual CPUs and writes the memory while it is
  copied byte by byte, also while its emit is trapped, and the copy survives from pass to pass;
* *limits*: 100 images, 100 table entries, a `uint8_t` that counts entries, a heap
  that shrinks with each pass, a sequence number that skips one value as it wraps;
* *queues and their notifications*: KeyManager takes one buffer per queue and call, while
  notifications merge, overlooks a failed send, and sends through a copy of its driver, so that
  what the send changes there is lost;
* *binary data as strings*: CakeServer copies a signature with `strcpy`, which stops at a 0 byte, and
  prints a text into a buffer no larger than the text's own;
* *a page shared by programs that know nothing of each other*: the dataport tools and the
  CakeML program write and read one page byte by byte, calls fail halfway, and a text
  that fills the page leaves no place for its 0;
* *bytes and widths*: `readAddr` passes over a byte, a 64-bit sum is made an `int`, a count a
  `uint8_t`, a character is compared with `EOF` as a `char`;
* *ends of things*: the copy ends before the guest's memory does, the scan at the last byte
  copied, the frames of `memdev` at the last page of the region;
* *start-up*: nothing orders a port's first read after its initialisation, and the guest
  runs even if `consume_callback` could not be registered.

## 3. Modules and how they correspond to the code

| module | models |
|---|---|
| `PublishedPort` | abstract: publication of whole messages |
| `SamplingPort` | `sp_int8_t.c`: one action per access to the shared page |
| `Connections` | the flags of the `ready` and `done` connections |
| `CrossVm` | guest program, trap, `sys_ipa_to_pa`, `consume_callback` |
| `Handshake` | abstract: all the VM side may rely on of the manager |
| `IntrospectManager` | the loop of `run()` and what it calls |
| `VmAttest` | composition of `CrossVm` and `IntrospectManager`, with the guest's stores |
| `CakeServer` | the callback, the main thread, a peer that is patient or not |
| `KeyManager` | the callback on two virtqueues, a client that is patient or not |
| `ElfNames` | `readWord`, `readAddr`, `printSectionHeader`: where section names are found |
| `RamDataport` | the frame iterator and the pages mapped with it |
| `ElfScan` | composition of the two: one measurement byte by byte, from the guest's pages to what is printed |
| `Dataport` | the tools `read.c`, `write.c` and the dataport functions of `dataport_ffi.c` on one page |
| `MC_SamplingPort`, `MC_VmAttest`, `MC_ElfScan`, `MC_Dataport` | instances for TLC (the others need none) |
| `NumberLemmas` | lemmas on `\div`, `%`, multiples and least elements |
| `SamplingPortProofs`, `HandshakeProofs`, `VmAttestProofs`, `CakeServerProofs`, `KeyManagerProofs`, `ElfScanProofs`, `DataportProofs` | theorems and proofs |

**SamplingPort.** `port` is the page; `wpc`, `argument`, `seqNum` are the writer's
position, `*data` and static counter; `rpc`, `newSeqNum`, `data`, `result` are a
reader's. The fences of the C code order the three stores of a write and the
three loads of a read, so each is an action. `count`, `latest`, `begun`, `overlap` and
`lastGood` are history. The copy of the message (one byte, `int8_t`) is one access.

**CrossVm.** The guest program is not in the repository; it may emit and wait any
number of times in any order. `GuestEmit` ends in the trap, `SysIpaToPa` is the
VMM's handler, `ConsumeCallback` the done handler, `GuestWake` the return of the
blocked read. The device's event register counts; a read takes all of it. `vcpu` is the
virtual CPU of the guest program; the other one may store to memory at any time.
`registered` says whether `consume_callback` could be registered; the code only logs that it could not.

**IntrospectManager.** `mpc` follows the loop. Memory is a row of bytes; `CopyByte` copies one of them, in any
order, and the guest's stores fall in between, so that a header may be copied that the memory never held as a whole. What the code
makes of the bytes at an address is given by two constant operators of the whole copy and the address: `Magic` (are the bytes an
ELF identity) and `Header` (is the type accepted, how many sections and segments does the header announce, do the
tables lie inside the memory, have the sections names, are their contents inside). The tables, names and contents lie elsewhere in the
copy, and may be torn from the header that points to them; that is why `Header` is given all of the copy. The scan looks at one address
per step. The heap is counted in `malloc` calls: `headers` for `ELFList`,
`tables` for the tables `run()` keeps, `printed` for those the printing functions
build. Where the C code writes past `ELFList` or a table, or uses a pointer that is NULL
or uninitialised, the manager is `"halted"` and not followed further; what the C
program does there depends on the build, and a halt stands for the worst of it.
The counts of entries go through `NumEntries`, the `uint8_t`
of the table types. `held` is history: what each byte has been since the pass began.
`MC_VmAttest` gives the two operators for a memory of a few bytes: the identity is one byte, the number of entries the next,
and the last byte of the memory stands for all a header points to.

**VmAttest** joins the two by the shared variables `ready`, `done` and `memdev`.
`managerState` maps the nine positions of the manager to the five of `Handshake`.

**CakeServer.** `cpc` is the callback thread, `mpc` the main one; `occurred` is
`sb_occurred_periodic_dispatcher`, `sem` the semaphore, `port` the port that carries
both request and reply. A text is known by its kind, its number and its length. `ffisb_read_port_read` fills its buffer as far as
the text goes and returns all 4096 bytes: the field `rest` of a message read is what the stack happened to hold behind the text. The
reply is the binary signature followed by what was signed, and `strcpy` copies it to its first 0 byte:
`ReplyLengths` has every place a signature may have one, and the end of the text (nothing behind the text ever gets to the port). The
copy begins (`WriteReply`) and ends (`CopyEnd`) in steps of their own; a peer that does not wait may write to the port in between, which
leaves it `Mixed`. Where `sprintf` or `strcpy` would go beyond the 4096 bytes of `str` or of the port, the main thread is `"halted"`.
The peer writes a request in two steps, between which the port is `Mixed`. The component is not connected in the live assembly; its
peer is taken from the connections and from the commented `cake_send`. Whether it waits for each
reply (`patient`) is chosen in `Init`, so that one run covers both kinds.

**KeyManager.** `kpc` follows `msg_wait_callback`; `requests` and `answered` are the two rings of
`flagger_recv`, `keysAvail`, `keysUsed` those of `flagger_send`, and `pool` its
free buffers. `pending` is the
notification. Each call of the library is a step, and allocation and sending fail when the
pool or the ring is full; a used ring of `flagger_recv` that is full (`UsedRingRoom`) makes `AddUsed` return with the request neither
given back nor announced. `issue_key` and `send_outgoing_packet` are given `virtqueue_driver_t` by value, while
`handle_flagger_send_callback` is given the driver itself. The rings and the descriptors (`table`) are in memory the two sides share; where
the library, which is not in the repository, keeps its driver's accounts of free descriptors (`free`) and free buffers (`pool`) cannot be
seen from here. Each of the two is therefore either behind a pointer or in the structure, as `Init` chooses (`shared`); of an account in
the structure, what a send changes is lost (`ThroughCopy`). A second key may then go out in the descriptor, or the
buffer, of one still on its way. `overlaps` is history: the keys sent while another had yet to be freed.
As in `CakeServer`, `patient` is chosen in `Init`: such a client has one request of
one buffer at a time. The component is commented out of the build.

**ElfNames.** One step per section printed. `image` has the nine bytes `readAddr` may look at.
`NameOffset` is the sum as the code forms it, in 64 bits and then as an `int`; `Place` is the same
sum with what the field holds, and is used by the properties only. The module has no initial state of
its own: `ElfScan` sets its variables.

**RamDataport.** `Frame` is the check and the index of `dataport_memory_iterator`; the library asks
for each page of the registered region once, in any order.

**ElfScan.** `spc` follows one pass: `MapPage` (the VMM, through `RamDataport`), `Copy` of the first
`Copied` bytes, `tryReadELF` at each byte that is 0x7f, `ReadTables`, and `BeginPrint`, `PrintSection`,
`EndPrint` around the section printing of `ElfNames`, which `PrintSection` extends by the contents of
`.rodata`. `ELFList` and `tables` are what the code reads out of `LinuxMem`, with the widths of its variables;
`report` is what it prints. `Rams[ram].laid` says what the guest laid in its memory, and only the
properties look at it; `LaidAssumption` says what it means that an image is laid there (its header,
tables and names are where the ELF format has them, its extent spans them, and nothing else in the memory
begins with the identity). TLC evaluates it for all memories of `elf_scan`. Of the fields of a header those are kept that the code uses. The entry address, the
flags and addresses of sections are read and printed but decide nothing. A read outside the
memory, a list overrun or an index into unwritten entries ends in `"halted"`.
`IntrospectManager` has what `ElfScan` leaves out (the guest's stores during the copy, the heap,
several passes) and leaves the reading of the bytes to its constant operators: `Magic` stands for
`matchELFHeader`, and of what `Header` gives, `accepted` is `LegalType`, `inside` is `TablesFit` but for the counts, `named` the sections
printed before a busted one, `contained` that `Payload` is inside the memory. `Whole`, `Tabled` and `NameCopied`, of an image and the end of the
copy, are used by the properties only.

**Dataport.** `tool` is one run after another of `write`, `reader` of `read`, `cake` the CakeML program
of the guest, whose descriptors survive its calls. A store or a load of a byte is a step. A
mapping that `mmap` refused is dereferenced by `write`, `read` and `dataport_write`: the process is
killed by its first access, which for a tool is the end of a run without effect. A text that fills
the page has its 0 stored beyond the mapping: the program is killed or goes on, as the build has it.
`filled` is history: whether this or a whole page of message bytes has happened; a reader that finds no 0
in the page is `"beyond"`.
`settled` is history as well: what a write that nobody disturbed leaves, which for the tool is `LeftBy` of its input.
`CharSigned` says whether a plain `char` is signed. On the ARM targets, the only ones the repository builds for, it is not, and both runs
take it so; the theorems hold for either.

## 4. What the runs show

| run | question and instance |
|---|---|
| `sampling_port` | `NoTornRead`, `NoSpuriousFailure`, `DropsShow` and refinement of `PublishedPort`: two readers, five messages over two numbers, so that a reader may be lapped; both data values |
| `sampling_port_unpublished` | violation: see section 7 |
| `vm_attest_measure` | `SnapshotFresh`, `ReportExact`, `OwnBlocksReturned`, `HaltedBeyondLimits`: two passes over every memory of three bytes of four values, which give ordinary and unusual images (cut-off count, too long a table, no names, tables and contents outside, refused type), two slots, a heap of 20 blocks, two guest stores that may fall into a copy and tear a header |
| `vm_attest_handshake` | `PassesNeedRequests`, `AtMostTwoWakesPerPass`, `FifthWakeIsFresh`, `KeepsHandshake`, and the liveness properties `RequestAnswered`, `WaiterWoken`: four requests against a manager that may halt, with and without the callback registered |
| `vm_attest_garbage` | violation: see section 7 |
| `cake_server` | `NoSleepOnDispatch`, `NoLostDispatch` (liveness) for any peer, `SignsTheRequest`, `ReadyMeansReplied`, `HaltedByLongRequest` for a patient one: four requests, each of a length that leaves room for the signature, for the newline only, or for neither; any rest behind a text read; signatures with and without a 0 byte |
| `key_manager` | `BuffersAccounted`, `LeftBehindByMerge` for any client, `PatientServed`, `PatientCompleted` (liveness) for a patient one: five requests (three of an impatient client, of up to two buffers), two buffers, rings of two entries, each account of the driver shared or lost with the copies |
| `key_stranded` | violation: see section 7 |
| `elf_scan` | `HeadersExact`, `TablesExact`, `NamesInPlace`, `BustedForCause`, `RodataReadable`, `HaltedForCause`: 638 guest memories with whole, cut, refused, overlong and look-alike images; their pages mapped in every order |
| `elf_rodata` | violation: see section 7 |
| `dataport` | `ReadsStayInside`, `WriteLeaves`, `QuietReadExact`, `DescriptorsAccounted`: a page of four bytes, texts that fill it and inputs with a 0 or a 255 included, an unsigned `char`, two runs of `write`, two calls of the CakeML program, any number of reads |
| `dataport_endless` | violation: see section 7 |

*Bounds.* A reader is affected by the writer's last round of numbers at most and
readers do not affect each other, so one full round during a read plus the start
of another, and two readers, show every case; the numbers wrap within the bound. A byte can be changed before or after its copy; two stores are what it takes to make a header of an old and a new byte that the
memory never held (once its first byte is copied, a store to that byte and then one to the next), and two passes are enough for
one to leave something to the next; the blocks that `printed` keeps make the second pass
meet a full heap. Two slots and three bytes let a memory hold one image too many for
the slots. The two stages between manager and guest (flag and event register) hold one
leftover `done` each, hence four requests bring out every mixture of leftovers; the
bound of `FifthWakeIsFresh` is tight: with four in place of five, TLC finds a
counterexample. A dispatch passes three flags, so four dispatches fill all of them and
merge. `HeapCap`, `HeadersUpperBound`, `ListSize` and `ByteRange` are small so that each
limit is met; in the code they are the heap, 100, 100 and 256.

A patient client of KeyManager has at most one request and two keys in flight; five requests are enough to lose
both buffers to overlapping keys and to ask again, and two requests to merge. An impatient client is bounded by `MaxHasty`: three requests of
two buffers each are three times what pool and ring can hold. On the dataport a third
write adds nothing a second does not: any byte is either of an earlier write or of the one
under way. One descriptor (`MaxFds`) lets the second call meet the limit.

A byte of `elf_scan` has 14 values, so that eight of them still make a number TLC can hold: what is 2^16,
2^32 and 2^64 in the code is 14^2 = 196, 14^4 and 14^8 there, and each limit can be crossed: places and sizes of sections below
and beyond 196, counts below and beyond 14, sums that leave the memory. The memory has 1024 bytes in 8 pages of 128 from
384 on; 896 bytes are copied to the first of the 970 of `Linux_Mem` (in the code 100 MB to 100 MB and
some). A first image is whole everywhere; a second stands at each of 600 places, so
that every piece of it is once cut by a page's end, by the end of the copy and by the end of the memory; at one place it
varies in type, read-only data, names and tables; in two memories the end of the copy cuts section headers, or a name, so that
a section seems to be read-only data outside the memory. `ListSize` 5 and `HeadersUpperBound` 3 are exceeded by some. A run
that has read its tables cannot meet the next image again, so the passes of one boot add nothing here: `LinuxMem` is
all overwritten up to `Copied`, and what is behind it stays zero.

*Statements weaker than one might want.* `SnapshotFresh` does not say that the copy is
one moment of the guest's memory, nor that a header in it was ever in the guest's memory: it speaks of each byte. The guest is not paused, so
no more is true, and `ReportExact` is about the copy. An
answer may wake the guest late: up to four wake-ups after a request may stem from
earlier passes. An impatient peer of CakeServer may make the server sign its own
last reply; therefore `SignsTheRequest`, `ReadyMeansReplied` and `HaltedByLongRequest` are conditional on
patience. `ReadyMeansReplied` allows a reply that ends inside its signature, as `strcpy` may leave it: nothing in the code excludes a signature with a 0
byte. `BuffersAccounted` and `PatientServed` allow the losses that the driver passed by value may cause, one for each key that overlaps an
earlier one: the first says that nothing else loses a buffer, the second that a patient client is not refused a key before all buffers but one may have
been lost. `NamesInPlace` is conditional on the bytes `readAddr` confuses being equal, as they are
in an image whose string table has an offset below 2^16; so are `TablesExact`, field by field, and
`RodataReadable`, which are false without it (section 7). `WaiterWoken` is conditional on the callback being
registered, and `ReadsStayInside` on no call having filled the page: `dataport_write` itself cannot
end such a text. `WriteLeaves` says what `write` does leave, also where that is not its stdin (section 7). `QuietReadExact` says nothing of
a read during a write: such a read may mix texts, and only `ReadsStayInside` holds of it.

## 5. Fairness and deadlock

seL4 schedules every component's thread, so the manager, the VMM's handlers,
CakeServer's two threads and KeyManager's callback are weakly fair, each as one process. A guest
program whose read has an event to return is run by the guest kernel
(`GuestWake`). Nothing makes the guest, CakeServer's peer or KeyManager's client ask, so their requests and waits have no
fairness. `CHECK_DEADLOCK FALSE` is set where the system may really stop: a guest or
a peer that has asked its last question leaves the manager in `ready_wait` or the
server on its semaphore, a halted server stops, a key manager without a notification waits, a halted manager never
moves, and `ElfScan` ends when the pass is done or halted.
The sampling port and the dataport never stop (there are always readers), and deadlock is checked there.

## 6. What is proved

For every value of the constants that satisfies the named assumptions:

* **SamplingPortProofs** (from `PortAssumption`): `TypeCorrect`, `Untorn`,
  `FailuresHaveCause`, `DropsVisible`, `Refinement`. The inductive invariant `IInv` adds
  to the types that the page shows a number only together with the data published under it
  (`PageInv`), and that what a reader holds was current when its read began and
  still is if no write has run since (`ReaderInv`). The number is `count % DIRTY_SEQ_NUM`; that
  two counts less than a round apart with equal remainders are equal (`Remainders`) is what
  makes the second look at the number conclusive. `Refinement` maps a read's return
  to `EndRead` and a write's last store to `Publish`; every other step stutters.
* **HandshakeProofs** (from `RequestsAssumption`): `HandshakeSafe`. `HandshakeInv` counts,
  besides the wake-ups had, those each stage can still cause (`WakesBacked`,
  `StaleWakesBounded`); the latter is what bounds the stale ones by four.
* **VmAttestProofs** (all assumptions of `VmAttest`): `ManagerKeepsHandshake`, a refinement that needs no
  invariant, and with it what `HandshakeSafe` says of any manager that keeps the handshake:
  `PassesRequested`, `WakesBounded`, `FifthWakeAnswers` hold of this one, whatever it measures. Of the
  measurement: `TypeCorrect`, `SnapshotRight`, `ReportRight`, `BlocksReturned`, `HaltsHaveCause`, for
  any `Magic` and `Header`. Their
  inductive invariant `ManagerInv` says that what a byte still to be copied is now is among what it has been
  since the pass began (`CopyInv`), that `ELFList` is the ordered list of what the scan has passed (`ScanInv`),
  how many blocks are out (`HeadersInv`, `TablesInv`, `FreedInv`), and why it may have halted. The number of
  `tables` is a sum over images, which no induction can be made about here; `TablesInv` therefore says that there
  is a function of partial sums, which each action extends or reads.
* **CakeServerProofs** (from `CakeAssumption`): `TypeCorrect`, `WakeupsReach`, `RequestsSigned`,
  `RepliesReady`, `BuffersSuffice`. `WakeupInv` must count the semaphore's initial 1 until `ffiinitialise`
  has taken it. `PatientInv` says that a patient peer's request is in exactly one place on
  its way, and what the port holds until it is answered; the reply in the port is whole or cut in its signature (`WholeOrCut`).
* **KeyManagerProofs** (from `KeyAssumption`): `TypeCorrect`, `LossesBounded`, `NothingElseLeftBehind`,
  `PatientClientServed`, whatever `shared` is. `SendInv` says that a descriptor in no ring is free to the driver, and that before any overlap
  the one buffer under way is nobody else's; a send then loses a buffer only if it overwrites the entry of a descriptor that is
  still in a ring, so each of the lost (`Stranded`) is paid for by an overlap: `SendAccounted` and `PollSendAccounted` count them, with
  `OneMoreThan` and `AllButAtMostOne` about the cardinality of sets that differ by an element. `MergeInv` counts a
  notification to come and a poll to come with the merged ones; `PatientInv` bounds the keys a
  patient client leaves with the key manager by two, one of them about to be freed. If the pool is then empty, all buffers but
  that one have been lost (`LostBefore`); a descriptor there always is (`DescriptorLeft`).
* **ElfScanProofs** (from `NamesAssumption`, `RamAssumption`, `ScanAssumption`, `LaidAssumption`): `CopyRight`,
  `TypeCorrect`, `HeadersRight`, `TablesRight`, `NamesRight`, `BustedRight`, `RodataRight`, `HaltsForCause`, for
  every memory of the guest, region, page size, order of mapping, range of a byte and limit. The argument:
  * `MemoryInv`: a mapped page is at the frame of its own offset (`PagePlace`), hence each byte of
    the copy is the guest's (`MemdevRight`);
  * `ListInv`: the headers listed are, in order, those of the places below the cursor that are accepted; `TablesInv`: the
    tables kept are what their headers say and lie in the memory; `ImageInv`, `Looked`: the names found are
    `NameOffset` of the sections of the image at the cursor;
  * `ReportInv`: what is printed of a good image is the `Contents` of the sections taken for read-only data, one for
    each, in their order;
  * with the copy in place these are statements about what is laid (`TabledAt`, `ImageAt`, `SectionPlaced`, `ProgramPlace`).
    `readAddr` of a field below 2^16 differs from the field by a multiple of 2^32 (`readAddrLow`), remainders
    modulo 2^32 survive the reduction modulo 2^64 (`AsIntOfSum`), and an int between the start of the
    image and the end of the memory is the sum it was made of (`AsIntIn`).

  `HaltsForCause` is for every memory, also where images are cut. `HaltedForCause` takes for a cause an image whose header or section
  headers the end of the copy cuts (`Tabled` says it does not): its names may be looked up anywhere, and a section that is not `.rodata` be
  printed from outside the memory. Of a `Tabled` image the entries read are those laid (`TabledAt`), and a section is taken for
  `.rodata` wrongly only if the end of the copy cuts its name (`NameCopied`), which `BeyondLimits` names as well. `HaltInv` finds an injection of
  the list and one identity more into the images laid.
* **DataportProofs** (from `DataportAssumption`): `TypeCorrect`, `ReaderStops`, `DescriptorsKept`, `LeavesItsText`,
  `QuietReadRight`, for a signed and an unsigned `char` and any inputs. `ReadsStayInside` holds
  because the last byte of the page is 0 until a call fills the page (`LastByteZero`): each other
  writer's bound on its own index keeps it. `TextInv` follows the one writer (`ToolAlone`, `CakeAlone`) and the reader
  that nobody disturbs byte by byte: as far as the tool has come it has stored `Getchar` of its input, and where it stops is where `LeftBy` ends, at
  the first `EofByte` of a signed `char` or at `length - 1`. That a C string ends at one place only (`TextEnds`,
  `TextEndsOnce`, `UpToEnds`) rests on the least element of a set of numbers.

Each inductive invariant was checked with TLC on the instances of section 4 before it was proved. One attempt
found a fault of the model: the entry `report` gets for an empty table carried the read-only data of the image
before, which `BeginPrint` now clears first, as nothing is printed there.

*Only model-checked:* all liveness (`RequestAnswered`,
`WaiterWoken`, `NoLostDispatch`, `PatientCompleted`), which, with `ENABLED` and induction over data,
is outside what TLAPS can do here. Every other property of a passing run is the statement of a theorem.

## 7. Where code and words disagree

* `SuccessMeansMessage` (`sp_int8_t.c:74`): a reader that comes before
  `init_sp_int8_t` gets `true`, number 0 and zeros, though a comment says that `true` means a message
  was read and another that the first message has number 1.
* `GarbageCleaned` (`introspect_manager.c:141`): the block headed "clean up our
  garbage" leaves the tables the printing functions build; the heap shrinks by them on every
  pass (`OwnBlocksReturned` shows that the rest does come back).
* `RequestCompleted` (`key_manager.c:138`): of two requests whose notifications merge, the second
  stays in the queue, though the comment promises a key for what is received.
* `RodataExact` (`scrape_manager.c:32`): `readAddr` takes byte 3 of a field where byte 2 belongs, so offsets and sizes
  of 2^16 and more are misread, and other bytes of the image are printed under "We found some read-only data!
  Here it is:" (`pretty_printer.c:94`). Below 2^16 all is right (`RodataReadable`).
* `WritesStdin` (`write.c:47`): with an unsigned `char`, `write` does not notice the end of stdin and
  goes on to `length - 1` with bytes 255: when it comes to store its 0, what is before it is not its stdin. The property is about that moment, as the
  claim is about what is written and not about who reads it. What is left in the page all the same is `WriteLeaves`.

## 8. What is not modelled

* External and assumed: the guest program; seL4 notifications (flags that merge); the
  event register and interrupt of the cross-VM library; CakeServer's peer.
* The value of `introspect_data`, which is printed and not otherwise used; printing and
  formatting everywhere; functions nothing calls (`getSymbolTable`, raw printers).
* What a program does after undefined behaviour: the model halts there.
* `router.c` (prints a line), build files, device tables, boot scripts.
* KeyManager's client and the virtqueue library; what the library does with an address
  outside the registered region (none is asked for); texts longer than a dataport page.
* What CakeServer does after `sprintf` or `strcpy` has gone beyond its 4096 bytes (`HaltedByLongRequest` says when). The signature the CakeML
  program computes: it may have a 0 byte anywhere or nowhere. The bytes of a request or a reply: the two steps of each copy stand for all of them.
* `cake_comm_manager.c` is wholly commented out; only its `cake_send`, as the peer, is used here.
* `handle_recv_data`, `print_ip_packet`, and the command-line and conversion functions of CakeServer, which
  keep no state and which nothing here calls.
* That `Magic` and `Header` of `IntrospectManager` are what `ElfScan` reads of the bytes is argued in section 3, not
  checked: the theorems of `VmAttestProofs` hold for any two such operators.
* The `poke` module: it registers one character device whose write prints a line.

## 9. Plan

Done, in this order: `SamplingPort` with its abstract specification and proofs;
`Connections`, `CrossVm`, `IntrospectManager`, `VmAttest`, `Handshake` and theirs; `CakeServer`,
`KeyManager`, `ElfNames`, `Dataport` and theirs; `RamDataport`; `ElfScan`; the failed
registration and the second virtual CPU in `CrossVm`; full pages in `Dataport`; the half-written
request and the uninitialised rest in `CakeServer`; proofs of the measurement in `VmAttest`, of the texts
in `Dataport` and of all of `ElfScan`; torn headers, replies copied as strings, the driver passed by value, `HaltsForCause` for
cut images and both kinds of `char`.

Next, most important first:

1. A theorem that joins the two views of the manager: `IntrospectManager` with the `Magic` and `Header` that `ElfScan` reads off the bytes.
2. A dataport as an abstract register that `Dataport` implements for writers that take turns.
