------------------------- MODULE MCResourceFactory -------------------------
(***************************************************************************)
(* Instances of ResourceFactory for TLC.                                   *)
(*                                                                         *)
(* The build is the default one of default_resource.cpp on a platform     *)
(* with sendfile: no mmap or local-pool default, leader/follower          *)
(* flushing, eager resource usage, LRU purging with the default cache     *)
(* limits, and four default IOR parsers.                                   *)
(*                                                                         *)
(* argv is built from up to MaxItems pieces.  Each item set lists, per    *)
(* option it exercises, values that reach the distinct branches: an       *)
(* accepted word, a rejected word, a numeral and a non-numeral, and a     *)
(* value that is itself an option name, so that a piece read with the     *)
(* wrong stride shows up as a different option.                            *)
(***************************************************************************)
EXTENDS ResourceFactory

\* Every argv of at most max pieces from items.
ArgvsOf(items, max) == BoundedSeq(items, max)

MCBuild ==
  [cdr_mmap |-> FALSE, local_pool |-> FALSE,
   flushing |-> "TAO_LEADER_FOLLOWER_FLUSHING", lazy |-> FALSE, sendfile |-> TRUE,
   parsers |-> <<"DLL_Parser", "FILE_Parser", "CORBALOC_Parser", "CORBANAME_Parser">>,
   purging |-> "LRU", cache_max |-> 512, purge_percent |-> 20, giop_minor |-> 2]

MCMaxNumeral == 2

\* The process has the IIOP protocol factory service only, and the ORB
\* asks for fragmentation with no maximum set (0), just below the 24-byte
\* GIOP minimum, and at it.
MCLoadableProtocols == {"IIOP_Factory"}
MCMaxMessageSizes == {0, 23, 24}
MCNoFailures == {}
MCDefaultParserFailure == {"default_parser_names"}
MCInitParserFailure == {"init_parser_names"}

\* Parser options in option/value pairs, as a svc.conf line writes them,
\* mixed with two other value options; one of them takes -ORBIORParser
\* as its value.
MCParserItems ==
  {<<"-ORBIORParser", "p1">>, <<"-ORBIORParser", "p2">>,
   <<"-ORBNativeCharCodeSet", "-ORBIORParser">>,
   <<"-ORBConnectionCacheLock", "null">>}
MCParserMax == 3
MCParserArgvs == ArgvsOf(MCParserItems, MCParserMax)

\* A parser option after an option that takes no value.
MCShiftedItems == {<<"-ORBIORParser", "p1">>, <<"-ORBZeroCopyWrite">>}
MCShiftedMax == 2
MCShiftedArgvs == ArgvsOf(MCShiftedItems, MCShiftedMax)

\* No parser option: get_parser_names takes its default path.
MCDefaultItems == {<<"-ORBConnectionCacheLock", "null">>}
MCDefaultMax == 1
MCDefaultArgvs == ArgvsOf(MCDefaultItems, MCDefaultMax)

\* Every other option, with values for each of its branches.
MCOptionItems ==
  {<<"-ORBReactorMaskSignals", "0">>, <<"-ORBReactorMaskSignals", "2">>,
   <<"-ORBProtocolFactory", "IIOP_Factory">>, <<"-ORBProtocolFactory", "SHMIOP_Factory">>,
   <<"-ORBNativeCharCodeSet", "-ORBCustomReactorImplFactory">>,
   <<"-ORBNativeWCharCodeSet", "UTF-16">>,
   <<"-ORBCharCodesetTranslator", "t1">>, <<"-ORBWCharCodesetTranslator", "t2">>,
   <<"-ORBConnectionPurgingStrategy", "lfu">>,
   <<"-ORBConnectionPurgingStrategy", "none">>,
   <<"-ORBConnectionCacheMax", "2">>,
   <<"-ORBConnectionCachePurgePercentage", "lfu">>,
   <<"-ORBConnectionCacheLock", "null">>, <<"-ORBConnectionCacheLock", "thread">>,
   <<"-ORBResourceUsage", "lazy">>, <<"-ORBFlushingStrategy", "blocking">>,
   <<"-ORBMuxedConnectionMax", "1">>, <<"-ORBDropRepliesDuringShutdown", "0">>,
   <<"-ORBOutputCDRAllocator", "mmap">>,
   <<"-ORBOutputCDRAllocator", "local_memory_pool">>,
   <<"-ORBZeroCopyWrite">>, <<"-ORBCustomReactorImplFactory">>,
   <<"-ORBUnknownOption">>, <<"svc">>}
MCOptionMax == 2
MCOptionArgvs == ArgvsOf(MCOptionItems, MCOptionMax)

\* Two settings of the connection cache lock.
MCLockItems ==
  {<<"-ORBConnectionCacheLock", "null">>, <<"-ORBConnectionCacheLock", "thread">>}
MCLockMax == 2
MCLockArgvs == ArgvsOf(MCLockItems, MCLockMax)

\* Each purging strategy init() accepts.
MCPurgingItems ==
  {<<"-ORBConnectionPurgingStrategy", "lru">>, <<"-ORBConnectionPurgingStrategy", "lfu">>,
   <<"-ORBConnectionPurgingStrategy", "fifo">>, <<"-ORBConnectionPurgingStrategy", "null">>}
MCPurgingArgvs == ArgvsOf(MCPurgingItems, 1)

\* The parser argvs and the option argvs together: every option is
\* checked against the reference, and every parser array for its size.
MCFactoryArgvs == MCParserArgvs \cup MCOptionArgvs
====
