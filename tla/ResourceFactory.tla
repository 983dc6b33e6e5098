-------------------------- MODULE ResourceFactory --------------------------
(***************************************************************************)
(* TAO_Default_Resource_Factory (src/TAO/tao/default_resource.cpp).        *)
(*                                                                         *)
(* The factory is configured once by the service configurator through     *)
(* init(argc, argv), may be disabled by another resource factory, is       *)
(* asked by the ORB for its IOR parser names, its strategies and its       *)
(* allocators, and is finally destroyed.  init() walks argv twice: a       *)
(* first loop counts the -ORBIORParser options and allocates the           *)
(* parser_names_ array, a second loop applies every option, handing each   *)
(* parser name to add_to_ior_parser_names(), which stores it at index_.    *)
(*                                                                         *)
(* argv is a sequence of strings; strcasecmp is modelled as equality on    *)
(* tokens written in their canonical case.  Logging is left out.  The      *)
(* factory's members are the fields of one record, named after them        *)
(* without the trailing underscore; its field ub records the undefined     *)
(* behaviour a step performs (a write or read through a bad pointer).      *)
(***************************************************************************)
EXTENDS Naturals, Sequences, SequencesExt, FiniteSets, TLC

CONSTANTS
  Argvs,          \* the argvs init() may get, as sequences of pieces:
                  \* <<option, value>> or a lone <<token>>
  MaxNumeral,     \* numeric option values are the numerals 0..MaxNumeral
  Build,          \* the build macros the code reads (see BuildFields)
  FailingAllocs,  \* which ACE_NEW_RETURN of the parser array or the reactor may fail
  LoadableProtocols, \* protocol factory services the ORB's process has
  MaxMessageSizes    \* max_message_size values the ORB passes for a transport

ASSUME MaxNumeral \in Nat
ASSUME FailingAllocs \subseteq {"init_parser_names", "default_parser_names",
                                 "reactor", "reactor_impl", "custom_impl"}

\* Build: cdr_mmap is TAO_USE_OUTPUT_CDR_MMAP_MEMORY_POOL == 1, local_pool is
\* TAO_USE_LOCAL_MEMORY_POOL == 1, flushing the TAO_USE_*_FLUSHING choice,
\* lazy is TAO_USE_LAZY_RESOURCE_USAGE_STRATEGY == 1, sendfile is
\* TAO_HAS_SENDFILE == 1, parsers the names get_parser_names() stores for the
\* TAO_HAS_*_PARSER macros that are 1, and purging, cache_max, purge_percent
\* the TAO_CONNECTION_* defaults, giop_minor TAO_DEF_GIOP_MINOR (major 1).
BuildFields == {"cdr_mmap", "local_pool", "flushing", "lazy", "sendfile",
                "parsers", "purging", "cache_max", "purge_percent", "giop_minor"}
ASSUME DOMAIN Build = BuildFields

\* A char* slot of parser_names_ that holds nullptr.
NullSlot == "<nullptr>"

\* ACE_OS::atoi: the value of a numeral, 0 for a word.
Atoi(s) == IF \E n \in 0..MaxNumeral : ToString(n) = s
           THEN CHOOSE n \in 0..MaxNumeral : ToString(n) = s
           ELSE 0

(***************************************************************************)
(* The constructor.  index_ is not initialised by it; the model gives it  *)
(* -1, which every use below treats as outside the array.                  *)
(***************************************************************************)
Constructor ==
  [use_locked_data_blocks |-> 1, parser_names_count |-> 0,
   parser_names_alloc |-> FALSE, parser_names |-> <<>>, index |-> -1,
   protocol_factories |-> <<>>,
   connection_purging_type |-> Build.purging,
   cache_maximum |-> Build.cache_max, purge_percentage |-> Build.purge_percent,
   max_muxed_connections |-> 0, reactor_mask_signals |-> 1,
   dynamically_allocated_reactor |-> FALSE,
   options_processed |-> 0, factory_disabled |-> 0,
   output_cdr_allocator_type |-> IF Build.cdr_mmap THEN "MMAP_ALLOCATOR"
                                                    ELSE "DEFAULT",
   use_local_memory_pool |-> Build.local_pool,
   cached_connection_lock_type |-> "TAO_THREAD_LOCK",
   flushing_strategy_type |-> Build.flushing,
   char_native |-> NullSlot, wchar_native |-> NullSlot,
   char_translators |-> <<>>, wchar_translators |-> <<>>,
   resource_usage_strategy |-> IF Build.lazy THEN "TAO_LAZY" ELSE "TAO_EAGER",
   drop_replies |-> TRUE, custom_reactor_impl_factory |-> FALSE,
   ub |-> {}]

(***************************************************************************)
(* init(), first loop: curarg (0-based) visits 0, 2, 4, ... only, since   *)
(* the body increments it once more.  When the incremented curarg is       *)
(* argc - 1 and some parser was counted, the array is allocated with that *)
(* count, nulled, and index_ is reset.  ok is FALSE when that allocation   *)
(* fails, and init() then returns -1 at once.                              *)
(***************************************************************************)
\* Fault variants of the first loop: index_ reset to 1 instead of 0, and the
\* allocation tested against argc instead of argc - 1.
RECURSIVE CountParsersIndexFromOne(_, _, _, _)
CountParsersIndexFromOne(argv, curarg, f, ok) ==
  IF curarg >= Len(argv) THEN [f |-> f, ret |-> 0]
  ELSE LET c == f.parser_names_count
                  + (IF argv[curarg + 1] = "-ORBIORParser" THEN 1 ELSE 0)
           g == [f EXCEPT !.parser_names_count = c]
       IN IF curarg + 1 = Len(argv) - 1 /\ c # 0
          THEN CountParsersIndexFromOne(argv, curarg + 2,
                 [g EXCEPT !.parser_names_alloc = TRUE,
                           !.parser_names = [i \in 1..c |-> NullSlot], !.index = 1], ok)
          ELSE CountParsersIndexFromOne(argv, curarg + 2, g, ok)

RECURSIVE CountParsersAllocAtArgc(_, _, _, _)
CountParsersAllocAtArgc(argv, curarg, f, ok) ==
  IF curarg >= Len(argv) THEN [f |-> f, ret |-> 0]
  ELSE LET c == f.parser_names_count
                  + (IF argv[curarg + 1] = "-ORBIORParser" THEN 1 ELSE 0)
           g == [f EXCEPT !.parser_names_count = c]
       IN IF curarg + 1 = Len(argv) /\ c # 0
          THEN CountParsersAllocAtArgc(argv, curarg + 2,
                 [g EXCEPT !.parser_names_alloc = TRUE,
                           !.parser_names = [i \in 1..c |-> NullSlot], !.index = 0], ok)
          ELSE CountParsersAllocAtArgc(argv, curarg + 2, g, ok)

RECURSIVE CountParsers(_, _, _, _)
CountParsers(argv, curarg, f, ok) ==
  IF curarg >= Len(argv) THEN [f |-> f, ret |-> 0]
  ELSE LET c == f.parser_names_count
                  + (IF argv[curarg + 1] = "-ORBIORParser" THEN 1 ELSE 0)
           g == [f EXCEPT !.parser_names_count = c]
       IN IF curarg + 1 = Len(argv) - 1 /\ c # 0
          THEN IF ok
               THEN CountParsers(argv, curarg + 2,
                      [g EXCEPT !.parser_names_alloc = TRUE,
                                !.parser_names = [i \in 1..c |-> NullSlot],
                                !.index = 0], ok)
               ELSE [f |-> g, ret |-> -1]
          ELSE CountParsers(argv, curarg + 2, g, ok)

\* Fault variant: the store without ++index_.
AddToIorParserNamesNoAdvance(f, name) ==
  IF f.parser_names_alloc /\ f.index \in 0..Len(f.parser_names) - 1
  THEN [f EXCEPT !.parser_names[f.index + 1] = name]
  ELSE [f EXCEPT !.ub = @ \cup {"parser_names_write"}]

\* add_to_ior_parser_names: parser_names_[index_] = string_dup (name); ++index_.
\* The store is undefined unless the array exists and index_ lies inside it.
AddToIorParserNames(f, name) ==
  IF f.parser_names_alloc /\ f.index \in 0..Len(f.parser_names) - 1
  THEN [f EXCEPT !.parser_names[f.index + 1] = name, !.index = @ + 1]
  ELSE [f EXCEPT !.ub = @ \cup {"parser_names_write"}, !.index = @ + 1]

\* TAO_Codeset_Parameters::native (n) and add_translator (name).
CodesetNative(n) == n
AddTranslator(ts, name) == Append(ts, name)

\* The string-valued options with a fixed vocabulary: the value each word
\* of the if/else-if chain selects; any other word is reported and ignored.
ReactorMaskWords == ("0" :> 0) @@ ("1" :> 1)
PurgingWords == ("lru" :> "LRU") @@ ("lfu" :> "LFU") @@ ("fifo" :> "FIFO")
                @@ ("null" :> "NOOP")
ResourceUsageWords == ("eager" :> "TAO_EAGER") @@ ("lazy" :> "TAO_LAZY")
FlushingWords == ("leader_follower" :> "TAO_LEADER_FOLLOWER_FLUSHING")
                 @@ ("reactive" :> "TAO_REACTIVE_FLUSHING")
                 @@ ("blocking" :> "TAO_BLOCKING_FLUSHING")

\* Fault variant: an unknown word puts the member back to its default.
SelectWordResetUnknown(f, field, words, name) ==
  IF name \in DOMAIN words THEN [f EXCEPT ![field] = words[name]]
  ELSE [f EXCEPT ![field] = Constructor[field]]

SelectWord(f, field, words, name) ==
  IF name \in DOMAIN words THEN [f EXCEPT ![field] = words[name]] ELSE f

ConnectionCacheLock(f, name) ==
  CASE name = "thread" -> [f EXCEPT !.cached_connection_lock_type = "TAO_THREAD_LOCK"]
    [] name = "null"   -> [f EXCEPT !.use_locked_data_blocks = 0,
                                    !.cached_connection_lock_type = "TAO_NULL_LOCK"]
    [] OTHER           -> f

OutputCDRAllocator(f, arg) ==
  CASE arg = "mmap" ->
         IF Build.sendfile
         THEN [f EXCEPT !.output_cdr_allocator_type = "MMAP_ALLOCATOR"] ELSE f
    [] arg = "local_memory_pool" /\ f.output_cdr_allocator_type # "DEFAULT" ->
         [f EXCEPT !.output_cdr_allocator_type = "LOCAL_MEMORY_POOL"]
    [] arg = "default" -> [f EXCEPT !.output_cdr_allocator_type = "DEFAULT"]
    [] OTHER -> f

\* The options of the second loop that consume the next argument.
ValueOptions ==
  {"-ORBReactorMaskSignals", "-ORBProtocolFactory", "-ORBNativeCharCodeSet",
   "-ORBNativeWCharCodeSet", "-ORBCharCodesetTranslator",
   "-ORBWCharCodesetTranslator", "-ORBConnectionPurgingStrategy",
   "-ORBConnectionCacheMax", "-ORBConnectionCachePurgePercentage",
   "-ORBIORParser", "-ORBConnectionCacheLock", "-ORBResourceUsage",
   "-ORBFlushingStrategy", "-ORBMuxedConnectionMax",
   "-ORBDropRepliesDuringShutdown", "-ORBOutputCDRAllocator"}

\* One option of the second loop together with the argument after it.
ApplyOption(f, opt, v) ==
  CASE opt = "-ORBReactorMaskSignals" ->
         SelectWord(f, "reactor_mask_signals", ReactorMaskWords, v)
    [] opt = "-ORBProtocolFactory" ->
         [f EXCEPT !.protocol_factories = Append(@, v)]
    [] opt = "-ORBNativeCharCodeSet" -> [f EXCEPT !.char_native = CodesetNative(v)]
    [] opt = "-ORBNativeWCharCodeSet" -> [f EXCEPT !.wchar_native = CodesetNative(v)]
    [] opt = "-ORBCharCodesetTranslator" ->
         [f EXCEPT !.char_translators = AddTranslator(@, v)]
    [] opt = "-ORBWCharCodesetTranslator" ->
         [f EXCEPT !.wchar_translators = AddTranslator(@, v)]
    [] opt = "-ORBConnectionPurgingStrategy" ->
         SelectWord(f, "connection_purging_type", PurgingWords, v)
    [] opt = "-ORBConnectionCacheMax" -> [f EXCEPT !.cache_maximum = Atoi(v)]
    [] opt = "-ORBConnectionCachePurgePercentage" ->
         [f EXCEPT !.purge_percentage = Atoi(v)]
    [] opt = "-ORBIORParser" -> AddToIorParserNames(f, v)
    [] opt = "-ORBConnectionCacheLock" -> ConnectionCacheLock(f, v)
    [] opt = "-ORBResourceUsage" ->
         SelectWord(f, "resource_usage_strategy", ResourceUsageWords, v)
    [] opt = "-ORBFlushingStrategy" ->
         SelectWord(f, "flushing_strategy_type", FlushingWords, v)
    [] opt = "-ORBMuxedConnectionMax" -> [f EXCEPT !.max_muxed_connections = Atoi(v)]
    [] opt = "-ORBDropRepliesDuringShutdown" -> [f EXCEPT !.drop_replies = Atoi(v) # 0]
    [] opt = "-ORBOutputCDRAllocator" -> OutputCDRAllocator(f, v)

\* The branches that take no argument: -ORBZeroCopyWrite,
\* -ORBCustomReactorImplFactory, and an unknown -ORB option or any other
\* word, which are only logged.
ApplyFlag(f, opt) ==
  CASE opt = "-ORBZeroCopyWrite" /\ Build.sendfile ->
         [f EXCEPT !.output_cdr_allocator_type = "MMAP_ALLOCATOR"]
    [] opt = "-ORBCustomReactorImplFactory" ->
         [f EXCEPT !.custom_reactor_impl_factory = TRUE]
    [] OTHER -> f

\* init(), second loop.  A value option with nothing after it moves curarg
\* to argc and the loop ends.
RECURSIVE ParseOptions(_, _, _)
ParseOptions(argv, curarg, f) ==
  IF curarg >= Len(argv) THEN f
  ELSE LET opt == argv[curarg + 1] IN
       IF opt \in ValueOptions
       THEN ParseOptions(argv, curarg + 2,
              IF curarg + 1 < Len(argv) THEN ApplyOption(f, opt, argv[curarg + 2])
                                        ELSE f)
       ELSE ParseOptions(argv, curarg + 1, ApplyFlag(f, opt))

\* init (argc, argv): ignored once the factory is disabled; otherwise both
\* loops, the second one only if the first did not fail.
InitFactory(f, argv, ok) ==
  IF f.factory_disabled = 1 THEN [f |-> f, ret |-> 0]
  ELSE LET first == CountParsers(argv, 0,
                      [f EXCEPT !.options_processed = 1, !.parser_names_count = 0],
                      ok)
       IN IF first.ret = -1 THEN first
          ELSE [f |-> ParseOptions(argv, 0, first.f), ret |-> 0]

(***************************************************************************)
(* get_parser_names: the array init() filled, if it counted any parser;   *)
(* otherwise a new array of the build's default parsers.  ok is FALSE when *)
(* that allocation fails (return -1, the count already set).  The result   *)
(* is the array pointer (null or not), its slots and number_of_names.      *)
(***************************************************************************)
GetParserNames(f, ok) ==
  IF f.parser_names_count # 0
  THEN [f |-> f, ret |-> 0, null |-> ~f.parser_names_alloc,
        names |-> f.parser_names, number |-> f.parser_names_count]
  ELSE LET g == [f EXCEPT !.parser_names_count = Len(Build.parsers)] IN
       IF ~ok THEN [f |-> g, ret |-> -1, null |-> TRUE, names |-> <<>>, number |-> 0]
       ELSE [f |-> [g EXCEPT !.parser_names_alloc = TRUE,
                             !.parser_names = Build.parsers],
             ret |-> 0, null |-> FALSE, names |-> Build.parsers,
             number |-> Len(Build.parsers)]

\* The destructor frees parser_names_[i] for i < parser_names_count_, which
\* reads through a null array when the count was set without one.
DestroyFactory(f) ==
  IF f.parser_names_count > 0 /\ ~f.parser_names_alloc
  THEN [f EXCEPT !.ub = @ \cup {"parser_names_free"}]
  ELSE f

UseLocalMemoryPool(f, flag) ==
  [f EXCEPT !.use_local_memory_pool = flag,
            !.output_cdr_allocator_type = IF @ = "DEFAULT" THEN "LOCAL_MEMORY_POOL"
                                                           ELSE @]

DisableFactory(f) == [f EXCEPT !.factory_disabled = 1]

\* The allocators the getters return: input_cdr_{dblock,buffer,msgblock}_
\* allocator and output_cdr_dblock_allocator choose by use_local_memory_pool_,
\* output_cdr_buffer_allocator by output_cdr_allocator_type_.
PoolOrHeap(f) ==
  IF f.use_local_memory_pool THEN "LOCKED_ALLOCATOR_POOL" ELSE "LOCKED_ALLOCATOR_NO_POOL"
OutputCdrBufferAllocator(f) ==
  CASE f.output_cdr_allocator_type = "LOCAL_MEMORY_POOL" -> "LOCKED_ALLOCATOR_POOL"
    [] f.output_cdr_allocator_type = "MMAP_ALLOCATOR" /\ Build.sendfile -> "TAO_MMAP_Allocator"
    [] OTHER -> "LOCKED_ALLOCATOR_NO_POOL"

\* create_cached_connection_lock and locked_transport_cache.
CreateCachedConnectionLock(f) ==
  IF f.cached_connection_lock_type = "TAO_NULL_LOCK"
  THEN "ACE_Lock_Adapter<ACE_SYNCH_NULL_MUTEX>" ELSE "ACE_Lock_Adapter<TAO_SYNCH_MUTEX>"
LockedTransportCache(f) ==
  IF f.cached_connection_lock_type = "TAO_NULL_LOCK" THEN 0 ELSE 1

\* create_purging_strategy: an LRU strategy (of cache_maximum_ entries) for
\* the LRU type; for any other type an error is logged and null returned.
CreatePurgingStrategy(f) ==
  IF f.connection_purging_type = "LRU" THEN "TAO_LRU_Connection_Purging_Strategy" ELSE NullSlot

\* create_flushing_strategy: leader/follower, reactive, or blocking for
\* anything else.
CreateFlushingStrategy(f) ==
  CASE f.flushing_strategy_type = "TAO_LEADER_FOLLOWER_FLUSHING" ->
         "TAO_Leader_Follower_Flushing_Strategy"
    [] f.flushing_strategy_type = "TAO_REACTIVE_FLUSHING" -> "TAO_Reactive_Flushing_Strategy"
    [] OTHER -> "TAO_Block_Flushing_Strategy"

CreateLfStrategy(f) == "TAO_LF_Strategy_Complete"

\* create_fragmentation_strategy (transport, max_message_size): none without
\* a transport; the null strategy below the 24-byte minimum GIOP message or
\* before GIOP 1.2; on-demand fragmentation otherwise.
CreateFragmentationStrategy(hasTransport, maxSize) ==
  IF ~hasTransport THEN NullSlot
  ELSE IF maxSize < 24 \/ Build.giop_minor < 2 THEN "TAO_Null_Fragmentation_Strategy"
  ELSE "TAO_On_Demand_Fragmentation_Strategy"

\* A codeset descriptor as TAO_Codeset_Manager creates it: the build's
\* native codeset and no translators.
NewDescriptor == [ncs |-> "<default ncs>", translators |-> <<>>]

\* The null manager pointer.
NoManager == [created |-> FALSE, char |-> NewDescriptor, wchar |-> NewDescriptor]

\* TAO_Codeset_Parameters::apply_to (csd): the native codeset if one was
\* given, then every translator in the order it was added.
ApplyTo(native, translators, csd) ==
  [ncs |-> IF native # NullSlot THEN native ELSE csd.ncs,
   translators |-> csd.translators \o translators]

\* Fault variant: the char parameters applied to both descriptors.
CodesetManagerCharForBoth(f, svc) ==
  IF svc # "ok" THEN NoManager
  ELSE [created |-> TRUE,
        char |-> ApplyTo(f.char_native, f.char_translators, NewDescriptor),
        wchar |-> ApplyTo(f.char_native, f.char_translators, NewDescriptor)]

\* codeset_manager (): null when the TAO_Codeset service is not loaded
\* (svc = "absent") or its factory creates nothing ("create_null");
\* otherwise a manager whose char and wchar descriptors got the char and
\* wchar parameters.
CodesetManager(f, svc) ==
  IF svc # "ok" THEN NoManager
  ELSE [created |-> TRUE,
        char |-> ApplyTo(f.char_native, f.char_translators, NewDescriptor),
        wchar |-> ApplyTo(f.wchar_native, f.wchar_translators, NewDescriptor)]

\* load_default_protocols (TAO_HAS_IIOP): an IIOP_Factory item appended to
\* the (empty) set, its factory loaded.
LoadDefaultProtocols(f) ==
  [f |-> [f EXCEPT !.protocol_factories = Append(@, "IIOP_Factory")],
   ret |-> 0, bound |-> {Len(f.protocol_factories) + 1}]

\* Fault variant: a protocol service that cannot be found left unbound
\* without an error.
InitProtocolFactoriesIgnoreMissing(f) ==
  IF f.protocol_factories = <<>> THEN LoadDefaultProtocols(f)
  ELSE LET pf == f.protocol_factories IN
       [f |-> f, ret |-> 0, bound |-> {i \in DOMAIN pf : pf[i] \in LoadableProtocols}]

\* init_protocol_factories: the defaults when no -ORBProtocolFactory was
\* given; otherwise each item in turn gets the service of its name, and
\* the first one that has none ends the loop with -1, the items before it
\* keeping their factories.
InitProtocolFactories(f) ==
  IF f.protocol_factories = <<>> THEN LoadDefaultProtocols(f)
  ELSE LET pf == f.protocol_factories
           missing == {i \in DOMAIN pf : pf[i] \notin LoadableProtocols}
           stop == IF missing = {} THEN Len(pf) + 1 ELSE Min(missing)
       IN [f |-> f, ret |-> IF missing = {} THEN 0 ELSE -1,
           bound |-> {i \in DOMAIN pf : i < stop}]

(***************************************************************************)
(* The reactor.  The objects get_reactor may create are the time policy    *)
(* manager's timer queue, a queue a reactor implementation creates for     *)
(* itself when given none, the implementation and the ACE_Reactor; x       *)
(* records the state of each, the queue the reactor runs on, whether the   *)
(* Time_Policy_Manager service is loaded, and in x.ub a delete of an       *)
(* object that is not live.                                                *)
(***************************************************************************)
RObjs == {"tpm_queue", "own_queue", "impl", "reactor"}
NoQueue == "<null queue>"

\* The allocations of get_reactor whose failure is handled.
ReactorAllocs == {"reactor", "reactor_impl", "custom_impl"}

NoReactor == [reactor |-> "none", obj |-> [o \in RObjs |-> "none"], queue |-> NoQueue,
              impl |-> "none", tpm |-> FALSE, ub |-> FALSE]

New(x, o) == [x EXCEPT !.obj[o] = "live"]
Delete(x, o) == [x EXCEPT !.obj[o] = "freed", !.ub = @ \/ x.obj[o] # "live"]

\* time_policy_manager () and create_timer_queue: the manager's new queue
\* when the service is loaded, null otherwise.
CreateTimerQueue(x) == IF x.tpm THEN <<New(x, "tpm_queue"), "tpm_queue">> ELSE <<x, NoQueue>>

\* Fault variant: the queue deleted whether or not a time policy made it.
DestroyTimerQueueUnguarded(x, tmq) == IF tmq # NoQueue THEN Delete(x, tmq) ELSE x

\* destroy_timer_queue (tmq): handed to the time policy manager, which
\* destroys it, when the service is loaded; nothing otherwise.
DestroyTimerQueue(x, tmq) == IF x.tpm /\ tmq # NoQueue THEN Delete(x, tmq) ELSE x

\* A new reactor implementation (ACE_TP_Reactor, or what the custom factory
\* builds) on timer queue tmq; given a null queue it creates and owns one.
NewImpl(x, tmq, kind) ==
  IF tmq = NoQueue
  THEN [New(New(x, "impl"), "own_queue") EXCEPT !.queue = "own_queue", !.impl = kind]
  ELSE [New(x, "impl") EXCEPT !.queue = tmq, !.impl = kind]

\* Fault variant: the timer queue pointer never released, so its destructor
\* destroys the queue the new implementation runs on.
AllocateReactorImplNoRelease(f, x, custom, fails) ==
  LET q == CreateTimerQueue(x) IN
  IF f.custom_reactor_impl_factory /\ custom
  THEN IF "custom_impl" \in fails THEN <<DestroyTimerQueue(q[1], q[2]), FALSE>>
       ELSE <<DestroyTimerQueue(NewImpl(q[1], q[2], "custom"), q[2]), TRUE>>
  ELSE IF "reactor_impl" \in fails THEN <<DestroyTimerQueue(q[1], q[2]), FALSE>>
       ELSE <<DestroyTimerQueue(NewImpl(q[1], q[2], "tp"), q[2]), TRUE>>

\* allocate_reactor_impl: a timer queue from the time policy, held by a
\* TAO_RSF_Timer_Queue_Ptr that destroys it on return unless released; the
\* custom factory's implementation when -ORBCustomReactorImplFactory was
\* given and a factory function is installed, else a new ACE_TP_Reactor.  A
\* failed ACE_NEW_RETURN returns null before the release; a null from the
\* custom factory is released like an implementation.  The flag says
\* whether an implementation was returned.
AllocateReactorImpl(f, x, custom, fails) ==
  LET q == CreateTimerQueue(x) IN
  IF f.custom_reactor_impl_factory /\ custom
  THEN IF "custom_impl" \in fails THEN <<q[1], FALSE>>
       ELSE <<NewImpl(q[1], q[2], "custom"), TRUE>>
  ELSE IF "reactor_impl" \in fails THEN <<DestroyTimerQueue(q[1], q[2]), FALSE>>
       ELSE <<NewImpl(q[1], q[2], "tp"), TRUE>>

\* delete reactor: the ACE_Reactor owns its implementation (delete_implementation
\* 1), and the implementation the queue it created.
DeleteReactor(x) ==
  LET x1 == Delete(Delete(x, "reactor"), "impl")
  IN IF x.queue = "own_queue" THEN Delete(x1, "own_queue") ELSE x1

\* Fault variant: a reactor that did not initialise deleted without handing
\* its timer queue to destroy_timer_queue.
GetReactorOfNoDestroy(f, x, custom, initialized, fails) ==
  IF "reactor" \in fails THEN [f |-> f, x |-> [x EXCEPT !.reactor = "null"]]
  ELSE LET a == AllocateReactorImpl(f, x, custom, fails)
           x2 == New(IF a[2] THEN a[1] ELSE NewImpl(a[1], NoQueue, "default"), "reactor")
       IN IF initialized
          THEN [f |-> [f EXCEPT !.dynamically_allocated_reactor = TRUE],
                x |-> [x2 EXCEPT !.reactor = "live"]]
          ELSE [f |-> f, x |-> [DeleteReactor(x2) EXCEPT !.reactor = "null"]]

\* get_reactor: ACE_NEW_RETURN of an ACE_Reactor over allocate_reactor_impl
\* () (the allocation comes first; given a null implementation ACE_Reactor
\* builds a default one).  A reactor that did not initialise has its timer
\* queue read, is deleted, and the queue goes to destroy_timer_queue;
\* otherwise dynamically_allocated_reactor_ is set.
GetReactorOf(f, x, custom, initialized, fails) ==
  IF "reactor" \in fails THEN [f |-> f, x |-> [x EXCEPT !.reactor = "null"]]
  ELSE LET a == AllocateReactorImpl(f, x, custom, fails)
           x2 == New(IF a[2] THEN a[1] ELSE NewImpl(a[1], NoQueue, "default"), "reactor")
       IN IF initialized
          THEN [f |-> [f EXCEPT !.dynamically_allocated_reactor = TRUE],
                x |-> [x2 EXCEPT !.reactor = "live"]]
          ELSE [f |-> f,
                x |-> [DestroyTimerQueue(DeleteReactor(x2), x2.queue) EXCEPT !.reactor = "null"]]

\* reclaim_reactor: if get_reactor allocated the reactor, its timer queue
\* is read, the reactor deleted and the queue handed to destroy_timer_queue.
ReclaimReactorOf(f, x) ==
  IF f.dynamically_allocated_reactor
  THEN [DestroyTimerQueue(DeleteReactor(x), x.queue) EXCEPT !.reactor = "reclaimed"]
  ELSE [x EXCEPT !.reactor = "reclaimed"]

(***************************************************************************)
(* The factory's life: the service configurator constructs it and calls   *)
(* init() once; another factory may disable it at any time; after a        *)
(* successful init() the ORB asks for parser names and may set the local   *)
(* memory pool flag, any number of times; the destructor ends it.          *)
(***************************************************************************)
VARIABLES
  rf,        \* the factory's members
  given,     \* the argv pieces init() was given
  initRet,   \* init()'s result
  namesOut,  \* the last result of get_parser_names
  phase,     \* "constructed", "configured" or "destroyed"
  orb,       \* what the ORB core obtained from the factory
  rx         \* the reactor objects get_reactor created

vars == <<rf, given, initRet, namesOut, phase, orb, rx>>

NoResources == [called |-> FALSE, protocolsRet |-> 0, bound |-> {},
                flushing |-> NullSlot, lf |-> NullSlot, codesets |-> NoManager,
                fragmentation |-> [x \in BOOLEAN \X MaxMessageSizes |-> NullSlot]]

NoNames == [called |-> FALSE, ret |-> 0, null |-> TRUE, names |-> <<>>, number |-> 0]

Init ==
  /\ rf = Constructor
  /\ given = <<>>
  /\ initRet = 0
  /\ namesOut = NoNames
  /\ phase = "constructed"
  /\ orb = NoResources
  /\ rx = NoReactor

\* Whether the named allocation succeeds (TRUE) or may fail (FALSE as well).
AllocOutcomes(a) == {TRUE} \cup (IF a \in FailingAllocs THEN {FALSE} ELSE {})

Configure ==
  /\ phase = "constructed"
  /\ \E items \in Argvs, ok \in AllocOutcomes("init_parser_names") :
       LET r == InitFactory(rf, FlattenSeq(items), ok) IN
       /\ rf' = r.f
       /\ initRet' = r.ret
       /\ given' = items
  /\ phase' = "configured"
  /\ UNCHANGED <<namesOut, orb, rx>>

Disable ==
  /\ phase # "destroyed"
  /\ rf' = DisableFactory(rf)
  /\ UNCHANGED <<given, initRet, namesOut, phase, orb, rx>>

AskParserNames ==
  /\ phase = "configured" /\ initRet = 0
  /\ \E ok \in AllocOutcomes("default_parser_names") :
       LET r == GetParserNames(rf, ok) IN
       /\ rf' = r.f
       /\ namesOut' = [called |-> TRUE, ret |-> r.ret, null |-> r.null,
                       names |-> r.names, number |-> r.number]
  /\ UNCHANGED <<given, initRet, phase, orb, rx>>

SetLocalMemoryPool ==
  /\ phase = "configured" /\ initRet = 0
  /\ \E flag \in BOOLEAN : rf' = UseLocalMemoryPool(rf, flag)
  /\ UNCHANGED <<given, initRet, namesOut, phase, orb, rx>>

\* The ORB core, once, loads the protocol factories and takes the codeset
\* manager, the flushing, leader/follower and fragmentation strategies
\* (one per transport and max_message_size it may use).
CreateResources ==
  /\ phase = "configured" /\ initRet = 0 /\ ~orb.called
  /\ \E svc \in {"ok", "absent", "create_null"} :
       LET p == InitProtocolFactories(rf) IN
       /\ rf' = p.f
       /\ orb' = [called |-> TRUE, protocolsRet |-> p.ret, bound |-> p.bound,
                  flushing |-> CreateFlushingStrategy(rf), lf |-> CreateLfStrategy(rf),
                  codesets |-> CodesetManager(rf, svc),
                  fragmentation |-> [x \in BOOLEAN \X MaxMessageSizes |->
                                       CreateFragmentationStrategy(x[1], x[2])]]
  /\ UNCHANGED <<given, initRet, namesOut, phase, rx>>

\* The ORB core, after its other resources, gets its reactor once: the
\* Time_Policy_Manager service may be loaded or not, a custom factory
\* function installed or not, and the reactor may fail to initialise.
GetReactor ==
  /\ phase = "configured" /\ orb.called /\ rx.reactor = "none"
  /\ \E tpm \in BOOLEAN, custom \in BOOLEAN, initialized \in BOOLEAN,
        fails \in SUBSET (FailingAllocs \cap ReactorAllocs) :
       LET r == GetReactorOf(rf, [rx EXCEPT !.tpm = tpm], custom, initialized, fails)
       IN rf' = r.f /\ rx' = r.x
  /\ UNCHANGED <<given, initRet, namesOut, phase, orb>>

\* At shutdown the ORB core gives the reactor it got back to the factory.
ReclaimReactor ==
  /\ phase = "configured" /\ rx.reactor = "live"
  /\ rx' = ReclaimReactorOf(rf, rx)
  /\ UNCHANGED <<rf, given, initRet, namesOut, phase, orb>>

\* The service configurator finalises the factory after the ORB core has
\* shut down and given back its reactor.
Destroy ==
  /\ phase = "configured" /\ rx.reactor # "live"
  /\ rf' = DestroyFactory(rf)
  /\ phase' = "destroyed"
  /\ UNCHANGED <<given, initRet, namesOut, orb, rx>>

Next == Configure \/ Disable \/ AskParserNames \/ SetLocalMemoryPool \/ CreateResources
        \/ GetReactor \/ ReclaimReactor \/ Destroy

Spec == Init /\ [][Next]_vars

(***************************************************************************)
(* Properties                                                              *)
(***************************************************************************)

\* Every token argv may hold, and the values a parser slot may hold.
Tokens == UNION {Range(it) : it \in UNION {Range(a) : a \in Argvs}}
SlotValues == Tokens \cup Range(Build.parsers) \cup {NullSlot}

\* The members keep their types; index_, once reset by init(), never runs
\* past the array add_to_ior_parser_names stores into.
TypeOK ==
  /\ phase \in {"constructed", "configured", "destroyed"}
  /\ initRet \in {0, -1}
  /\ given \in Argvs \cup {<<>>}
  /\ rf.parser_names_count \in Nat
  /\ rf.parser_names \in Seq(SlotValues)
  /\ rf.index \in -1..Len(rf.parser_names)
  /\ rf.use_locked_data_blocks \in {0, 1}
  /\ rf.reactor_mask_signals \in {0, 1}
  /\ rf.connection_purging_type \in Range(PurgingWords) \cup {Build.purging}
  /\ rf.cached_connection_lock_type \in {"TAO_THREAD_LOCK", "TAO_NULL_LOCK"}
  /\ rf.output_cdr_allocator_type \in {"DEFAULT", "LOCAL_MEMORY_POOL", "MMAP_ALLOCATOR"}
  /\ rf.drop_replies \in BOOLEAN /\ rf.use_local_memory_pool \in BOOLEAN
  /\ rf.ub \subseteq {"parser_names_write", "parser_names_free"}
  /\ rx.reactor \in {"none", "null", "live", "reclaimed"}
  /\ rx.obj \in [RObjs -> {"none", "live", "freed"}]
  /\ rx.queue \in {NoQueue, "tpm_queue", "own_queue"}
  /\ rx.impl \in {"none", "tp", "custom", "default"}

\* init() and the destructor never store into or free through the
\* parser_names_ array outside what the first loop of init() allocated:
\* the count of the first loop and the stores of the second agree.
NoParserUB == rf.ub = {}

\* The parser values of the -ORBIORParser pieces, in argv order.
OptionValues(items, opt) ==
  LET ps == SelectSeq(items, LAMBDA it : Len(it) = 2 /\ it[1] = opt)
  IN [i \in 1..Len(ps) |-> ps[i][2]]

\* get_parser_names hands the ORB a real array holding exactly the parsers
\* named by -ORBIORParser, in order, or, when none was named (or init()
\* was ignored), the build's default parsers.
ParserNamesExact ==
  namesOut.called /\ namesOut.ret = 0 =>
    LET expected == IF rf.options_processed = 1 /\ OptionValues(given, "-ORBIORParser") # <<>>
                    THEN OptionValues(given, "-ORBIORParser") ELSE Build.parsers
    IN /\ ~namesOut.null
       /\ namesOut.number = Len(expected)
       /\ namesOut.names = expected

\* Reference for the option loop: the fields a well-formed piece writes,
\* read off the branch of its option in init().
NoWrites == [fld \in {} |-> 0]
Writes(item) ==
  IF Len(item) = 1
  THEN IF item[1] = "-ORBCustomReactorImplFactory"
       THEN [custom_reactor_impl_factory |-> TRUE] ELSE NoWrites
  ELSE LET o == item[1]
           v == item[2]
       IN CASE o = "-ORBReactorMaskSignals" /\ v \in DOMAIN ReactorMaskWords ->
                 [reactor_mask_signals |-> ReactorMaskWords[v]]
            [] o = "-ORBNativeCharCodeSet" -> [char_native |-> v]
            [] o = "-ORBNativeWCharCodeSet" -> [wchar_native |-> v]
            [] o = "-ORBConnectionPurgingStrategy" /\ v \in DOMAIN PurgingWords ->
                 [connection_purging_type |-> PurgingWords[v]]
            [] o = "-ORBConnectionCacheMax" -> [cache_maximum |-> Atoi(v)]
            [] o = "-ORBConnectionCachePurgePercentage" -> [purge_percentage |-> Atoi(v)]
            [] o = "-ORBConnectionCacheLock" /\ v = "thread" ->
                 [cached_connection_lock_type |-> "TAO_THREAD_LOCK"]
            [] o = "-ORBConnectionCacheLock" /\ v = "null" ->
                 [cached_connection_lock_type |-> "TAO_NULL_LOCK",
                  use_locked_data_blocks |-> 0]
            [] o = "-ORBResourceUsage" /\ v \in DOMAIN ResourceUsageWords ->
                 [resource_usage_strategy |-> ResourceUsageWords[v]]
            [] o = "-ORBFlushingStrategy" /\ v \in DOMAIN FlushingWords ->
                 [flushing_strategy_type |-> FlushingWords[v]]
            [] o = "-ORBMuxedConnectionMax" -> [max_muxed_connections |-> Atoi(v)]
            [] o = "-ORBDropRepliesDuringShutdown" -> [drop_replies |-> Atoi(v) # 0]
            [] OTHER -> NoWrites

LastWinsFields ==
  {"reactor_mask_signals", "char_native", "wchar_native", "connection_purging_type",
   "cache_maximum", "purge_percentage", "cached_connection_lock_type",
   "use_locked_data_blocks", "resource_usage_strategy", "flushing_strategy_type",
   "max_muxed_connections", "drop_replies", "custom_reactor_impl_factory"}

\* The value the last piece that writes fld gave it, or the constructor's.
LastWritten(fld) ==
  LET at == {i \in DOMAIN given : fld \in DOMAIN Writes(given[i])}
  IN IF at = {} THEN Constructor[fld] ELSE Writes(given[Max(at)])[fld]

\* For an argv of well-formed pieces, init()'s option loop gives every
\* option the value of its last recognised occurrence, accumulates the
\* protocol factories (until the ORB adds its defaults) and codeset
\* translators in order, and lets no piece disturb another option's member.
OptionsLastWins ==
  rf.options_processed = 1 /\ initRet = 0 =>
    /\ \A fld \in LastWinsFields : rf[fld] = LastWritten(fld)
    /\ ~orb.called => rf.protocol_factories = OptionValues(given, "-ORBProtocolFactory")
    /\ rf.char_translators = OptionValues(given, "-ORBCharCodesetTranslator")
    /\ rf.wchar_translators = OptionValues(given, "-ORBWCharCodesetTranslator")

\* The transport cache and the data blocks agree on locking: the data
\* blocks are unlocked (use_locked_data_blocks) exactly when the
\* connection cache lock is the null lock (locked_transport_cache).
LockedCacheConsistent ==
  rf.use_locked_data_blocks = LockedTransportCache(rf)

\* The pool flag set by use_local_memory_pool() governs the output CDR
\* buffer allocator as it governs the other allocators, unless the mmap
\* allocator was chosen.
PoolFlagHonoured ==
  rf.output_cdr_allocator_type # "MMAP_ALLOCATOR" =>
    OutputCdrBufferAllocator(rf) = PoolOrHeap(rf)

\* Every purging strategy -ORBConnectionPurgingStrategy accepts without an
\* error (lru, lfu, fifo, null) is one create_purging_strategy can build:
\* the transport cache of a configured factory gets a strategy.
PurgingStrategyAvailable ==
  phase = "configured" /\ initRet = 0 => CreatePurgingStrategy(rf) # NullSlot

\* init_protocol_factories, run by the ORB core after init(), succeeds
\* only with a loaded factory for every protocol: those -ORBProtocolFactory
\* named, in argv order, or IIOP alone when none was named.
ProtocolsReady ==
  orb.called /\ orb.protocolsRet = 0 =>
    LET named == IF rf.options_processed = 1
                 THEN OptionValues(given, "-ORBProtocolFactory") ELSE <<>>
    IN /\ rf.protocol_factories = IF named = <<>> THEN <<"IIOP_Factory">> ELSE named
       /\ orb.bound = DOMAIN rf.protocol_factories

\* The codeset manager the factory hands the ORB carries, in its char and
\* in its wchar descriptor separately, the native codeset of the last
\* -ORBNative[W]CharCodeSet (or the manager's own default) and the
\* translators of every -ORB[W]CharCodesetTranslator, in argv order.
CodesetsConfigured ==
  orb.codesets.created /\ rf.options_processed = 1 =>
    LET expect(native, translator) ==
          LET ns == OptionValues(given, native) IN
          [ncs |-> IF ns = <<>> THEN NewDescriptor.ncs ELSE Last(ns),
           translators |-> OptionValues(given, translator)]
    IN /\ orb.codesets.char = expect("-ORBNativeCharCodeSet", "-ORBCharCodesetTranslator")
       /\ orb.codesets.wchar = expect("-ORBNativeWCharCodeSet", "-ORBWCharCodesetTranslator")


\* While the ORB core runs on the reactor get_reactor handed out, the
\* reactor, its implementation and the timer queue it runs on are live:
\* allocate_reactor_impl releases its timer queue pointer once an
\* implementation uses the queue, and nothing destroys it before
\* reclaim_reactor.
ReactorTimerQueueAlive ==
  rx.reactor = "live" => \A o \in {"reactor", "impl", rx.queue} : rx.obj[o] = "live"

\* Once get_reactor has given up on a reactor that did not initialise, or
\* reclaim_reactor has taken it back, no object get_reactor created is
\* left: the time policy's queue went through destroy_timer_queue, the
\* rest with the reactor.
ReactorResourcesReleased ==
  rx.reactor \in {"null", "reclaimed"} => \A o \in RObjs : rx.obj[o] # "live"

\* No reactor object is deleted twice or after it was freed: a queue the
\* implementation created goes with the reactor, and destroy_timer_queue
\* deletes only through the time policy that made its queue.
NoReactorDoubleFree == ~rx.ub

====
