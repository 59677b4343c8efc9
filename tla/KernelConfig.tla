----------------------------- MODULE KernelConfig -----------------------------
(***************************************************************************)
(* The values a filesystem agrees on with the kernel when it is mounted      *)
(* (KernelConfig of src/fuse/src/fuser/mod.rs).  The kernel's INIT request   *)
(* names what it can do; init, a method of the filesystem, may change the    *)
(* configuration by any sequence of set_ and add_ calls with any values; the *)
(* INIT reply is built from what it left.  Sizes are bytes and durations are *)
(* nanoseconds; sets of capabilities are sets of bit numbers.                *)
(***************************************************************************)
EXTENDS Naturals, FuseAbi

CONSTANTS
    MAX_WRITE_SIZE,      \* the most a WRITE may carry (session.rs)
    PageSize,            \* page_size::get()
    Second,              \* nanoseconds in a second
    Tens,                \* the powers of ten from 1 to Second
    KernelCaps,          \* the sets of capabilities kernels report
    KernelReadaheads,    \* the max_readahead values kernels report
    InitSizes,           \* the sizes init may ask for
    InitCounts,          \* the numbers of requests init may ask for
    InitTimes,           \* the granularities init may ask for
    InitCaps,            \* the sets of capabilities init may ask for
    NoConfig             \* no init method is running

\* Kernels report a readahead that fits into 65535 pages, the most max_pages
\* can hold: for a larger one its + 1 overflows.
ASSUME SizesAssumption ==
    /\ MAX_WRITE_SIZE \in Nat \ {0}
    /\ PageSize \in Nat \ {0}
    /\ MAX_WRITE_SIZE <= 65535 * PageSize
    /\ KernelReadaheads \subseteq 0 .. 65535 * PageSize
ASSUME ValuesAssumption ==
    /\ InitSizes \subseteq Nat
    /\ InitCounts \subseteq Nat /\ \A n \in InitCounts : n < 65536
    /\ InitTimes \subseteq Nat
    /\ Tens \subseteq 1 .. Second
    /\ 1 \in Tens
    /\ KernelCaps \union InitCaps \subseteq SUBSET Nat
ASSUME NoConfigAssumption ==
    NoConfig \notin [capabilities : SUBSET Nat, requested : SUBSET Nat,
                     max_readahead : Nat, max_max_readahead : Nat,
                     max_background : Nat, congestion_threshold : Nat,
                     max_write : Nat, time_gran : Nat]

VARIABLE config

\* The flags every filesystem asks for.
INIT_FLAGS == {FUSE_ASYNC_READ, FUSE_BIG_WRITES}

default_init_flags(capabilities) ==
    INIT_FLAGS \union ({FUSE_MAX_PAGES} \intersect capabilities)

\* KernelConfig::new.  congestion_threshold is 0 while it is None: 0 is not a
\* value set_congestion_threshold takes.
new(capabilities, max_readahead) ==
    [capabilities |-> capabilities,
     requested |-> default_init_flags(capabilities),
     max_readahead |-> max_readahead,
     max_max_readahead |-> max_readahead,
     max_background |-> 16,
     congestion_threshold |-> 0,
     max_write |-> MAX_WRITE_SIZE,
     time_gran |-> 1]

\* The calls init may make.  A value that is refused changes nothing.
set_time_granularity(value) ==
    /\ config # NoConfig
    /\ value \in Tens
    /\ config' = [config EXCEPT !.time_gran = value]

set_max_write(value) ==
    /\ config # NoConfig
    /\ value # 0
    /\ value <= MAX_WRITE_SIZE
    /\ config' = [config EXCEPT !.max_write = value]

set_max_readahead(value) ==
    /\ config # NoConfig
    /\ value # 0
    /\ value <= config.max_max_readahead
    /\ config' = [config EXCEPT !.max_readahead = value]

add_capabilities(capabilities_to_add) ==
    /\ config # NoConfig
    /\ capabilities_to_add \subseteq config.capabilities
    /\ config' = [config EXCEPT !.requested = @ \union capabilities_to_add]

set_max_background(value) ==
    /\ config # NoConfig
    /\ value # 0
    /\ config' = [config EXCEPT !.max_background = value]

set_congestion_threshold(value) ==
    /\ config # NoConfig
    /\ value # 0
    /\ config' = [config EXCEPT !.congestion_threshold = value]

InitCalls ==
    \/ \E value \in InitTimes : set_time_granularity(value)
    \/ \E value \in InitSizes :
          set_max_write(value) \/ set_max_readahead(value)
    \/ \E caps \in InitCaps : add_capabilities(caps)
    \/ \E value \in InitCounts :
          set_max_background(value) \/ set_congestion_threshold(value)

\* 3/4 of the background requests when init has not set a threshold.
congestion_threshold(c) ==
    IF c.congestion_threshold = 0 THEN ((c.max_background * 3) \div 4) % 65536
    ELSE IF c.congestion_threshold <= c.max_background
         THEN c.congestion_threshold ELSE c.max_background

\* A plausible mistake: the pages rounded down.
max_pages_rounded_down(c) ==
    LET largest == IF c.max_write >= c.max_readahead
                   THEN c.max_write ELSE c.max_readahead
    IN (largest \div PageSize) % 65536

\* Pages of the larger size, in 16 bits.
max_pages(c) ==
    LET largest == IF c.max_write >= c.max_readahead
                   THEN c.max_write ELSE c.max_readahead
    IN ((((largest - 1) \div PageSize) % 65536) + 1) % 65536

\* Init::reply: the fields of fuse_init_out.
InitReply(c) ==
    [major |-> 7,
     minor |-> FUSE_KERNEL_MINOR_VERSION,
     max_readahead |-> c.max_readahead,
     flags |-> c.capabilities \intersect c.requested,
     max_background |-> c.max_background,
     congestion_threshold |-> congestion_threshold(c),
     max_write |-> c.max_write,
     time_gran |-> c.time_gran,
     max_pages |-> max_pages(c)]

(***************************************************************************)
(* What the kernel and the session's buffer rely on                          *)
(***************************************************************************)
\* An INIT reply stays within what the kernel offered and what the session
\* can take: no flag the kernel did not report, no larger readahead, a write
\* size the session's buffer holds, enough pages for the largest request, a
\* number of pages that fits into its 16 bits, no congestion beyond the
\* background requests, and a granularity that is a power of ten.
ReplyFits(offered, reply) ==
    /\ reply.flags \subseteq offered.flags
    /\ reply.max_readahead <= offered.max_readahead
    /\ reply.max_write \in 1 .. MAX_WRITE_SIZE
    /\ 0 < reply.max_pages /\ reply.max_pages < 65536
    /\ reply.max_pages * PageSize >= reply.max_write
    /\ reply.max_pages * PageSize >= reply.max_readahead
    /\ reply.congestion_threshold <= reply.max_background
    /\ reply.time_gran \in Tens
=============================================================================
