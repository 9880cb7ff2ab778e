------------------------------ MODULE Services ------------------------------
(***************************************************************************)
(* The interfaces of the emulated system modules (hle/SmService, hle/nn,   *)
(* hle/nns).  An interface is its table of functions, in the order in      *)
(* which its constructor registers them; a function is what it does to its *)
(* caller: how many bytes of data it answers with, which interfaces it     *)
(* opens, which other handles it hands out, which descriptors of the       *)
(* request it reads without looking whether they are there, and the        *)
(* component it acts on.  Names, logging and the values of the answers are *)
(* left out.                                                               *)
(***************************************************************************)
EXTENDS Naturals, Sequences, FiniteSets

----------------------------------------------------------------------------
(* What a function does.  SERVICE_FUNC_STUB returns ERR_SUCCESS and leaves  *)
(* the reply empty.                                                        *)

Nothing == [data |-> 0, opens |-> << >>, copied |-> << >>, moved |-> << >>,
            error |-> 0, needs |-> {}, does |-> "nothing"]

AlsoAnswers(bytes, func) == [func EXCEPT !.data = bytes]
Answers(bytes) == AlsoAnswers(bytes, Nothing)

\* new Interface(); reply->moveHandle(interface->connect())
Opens(interface) == [Nothing EXCEPT !.opens = <<interface>>]

\* The events handed out are numbers that name no object.
Copies(fake) == [Nothing EXCEPT !.copied = <<fake>>]
Moves(fake) == [Nothing EXCEPT !.moved = <<fake>>]

\* The function reads element 0 of a descriptor vector (A, B, C or X).
Needs(descriptor, func) == [func EXCEPT !.needs = @ \cup {descriptor}]

\* The function acts on another component.
Acts(what, func) == [func EXCEPT !.does = what]

\* Pairs of the id of a command and the function it runs.
NoFuncs == {}

\* Interface::registerFunctions: mFunctions is the vector it is given.  An id
\* without a function of its own is registered with a stub.
Register(ids, funcs) ==
    [k \in DOMAIN ids |->
        [id |-> ids[k],
         func |-> IF \E f \in funcs : f[1] = ids[k]
                  THEN (CHOOSE f \in funcs : f[1] = ids[k])[2] ELSE Nothing]]

----------------------------------------------------------------------------
(* The interfaces: the functions a .cpp file implements, and the table its  *)
(* header registers.                                                       *)

SmServiceFuncs ==
    {<<0, Nothing>>, <<1, Acts("getService", Nothing)>>, <<2, Nothing>>,
     <<3, Nothing>>}

SmService == Register(<<0, 1, 2, 3>>, SmServiceFuncs)

IAccountServiceForApplicationFuncs ==
    {<<5, Opens("IProfile")>>, <<100, Nothing>>, <<101, Opens("IManagerForApplication")>>}

IAccountServiceForApplication == Register(<<0, 1, 2, 3, 4, 5, 6, 50, 51, 100, 101, 102, 110,
        111, 120>>, IAccountServiceForApplicationFuncs)

IManagerForApplication == Register(<<0, 1, 2, 3, 130, 150>>, NoFuncs)

INotifier == Register(<<0>>, NoFuncs)

IProfileFuncs ==
    {<<1, Answers(56)>>}

IProfile == Register(<<0, 1, 10, 11>>, IProfileFuncs)

IAllSystemAppletProxiesServiceFuncs ==
    {<<200, Opens("ILibraryAppletProxy")>>}

IAllSystemAppletProxiesService == Register(<<100, 200, 201, 300, 350, 400>>,
        IAllSystemAppletProxiesServiceFuncs)

IApplicationFunctionsFuncs ==
    {<<1, Opens("am_IStorage")>>, <<21, Answers(8)>>, <<22, Nothing>>, <<40, Answers(1)>>}

IApplicationFunctions == Register(<<1, 10, 11, 20, 21, 22, 23, 24, 25, 26, 30, 31, 32, 33, 40,
        50, 60, 65, 66, 67, 70, 71>>, IApplicationFunctionsFuncs)

IApplicationProxyFuncs ==
    {<<0, Opens("ICommonStateGetter")>>, <<1, Opens("ISelfController")>>,
     <<2, Opens("IWindowController")>>, <<3, Opens("IAudioController")>>,
     <<4, Opens("IDisplayController")>>, <<10, Opens("IProcessWindingController")>>,
     <<11, Opens("ILibraryAppletCreator")>>, <<20, Opens("IApplicationFunctions")>>,
     <<1000, Opens("IDebugFunctions")>>}

IApplicationProxy == Register(<<0, 1, 2, 3, 4, 10, 11, 20, 1000>>, IApplicationProxyFuncs)

IApplicationProxyServiceFuncs ==
    {<<0, Opens("IApplicationProxy")>>}

IApplicationProxyService == Register(<<0>>, IApplicationProxyServiceFuncs)

IAudioController == Register(<<0, 1, 2, 3, 4>>, NoFuncs)

ICommonStateGetterFuncs ==
    {<<0, Copies("event")>>, <<1, Answers(4)>>, <<5, Answers(1)>>, <<6, Answers(4)>>,
     <<9, Answers(1)>>}

ICommonStateGetter == Register(<<0, 1, 2, 3, 4, 5, 6, 7, 8, 9, 10, 11, 12, 13, 20, 30, 31, 40,
        50, 51, 55, 60, 61>>, ICommonStateGetterFuncs)

IDebugFunctions == Register(<<0, 1, 10, 20>>, NoFuncs)

IDisplayController == Register(<<0, 1, 2, 3, 4, 5, 6, 7, 8, 10, 11, 12, 13, 14, 15, 16, 17, 18,
        20, 21>>, NoFuncs)

ILibraryAppletCreator == Register(<<0, 1, 2, 10, 11, 12>>, NoFuncs)

ILibraryAppletProxyFuncs ==
    {<<1, Opens("ISelfController")>>, <<2, Opens("IWindowController")>>}

ILibraryAppletProxy == Register(<<0, 1, 2, 3, 4, 10, 11, 20, 1000>>, ILibraryAppletProxyFuncs)

IProcessWindingController == Register(<<0, 11, 21, 22, 23, 30, 40>>, NoFuncs)

ISelfControllerFuncs ==
    {<<40, Acts("createLayer", Answers(8))>>}
    \cup {<<id, Nothing>> : id \in 11..16}

ISelfController == Register(<<0, 1, 2, 3, 4, 9, 10, 11, 12, 13, 14, 15, 16, 17, 18, 19, 40, 50,
        51, 60, 61, 62, 63, 64, 65, 66, 67>>, ISelfControllerFuncs)

am_IStorageFuncs ==
    {<<0, Opens("IStorageAccessor")>>}

am_IStorage == Register(<<0, 1>>, am_IStorageFuncs)

IStorageAccessorFuncs ==
    {<<0, Answers(8)>>, <<11, Needs("C", Nothing)>>}

IStorageAccessor == Register(<<0, 10, 11>>, IStorageAccessorFuncs)

IWindowControllerFuncs ==
    {<<1, Answers(8)>>, <<10, Nothing>>}

IWindowController == Register(<<0, 1, 10, 11, 12>>, IWindowControllerFuncs)

IAddOnContentManager == Register(<<0, 1, 2, 3, 4, 5, 6, 7>>, NoFuncs)

IManagerFuncs ==
    {<<0, Opens("ISession")>>}

IManager == Register(<<0, 1>>, IManagerFuncs)

ISessionFuncs ==
    {<<0, Nothing>>}

\* Both entries have the id 0: the stub GetPerformanceConfiguration is never reached.
ISession == Register(<<0, 0>>, ISessionFuncs)

IFileSystemProxyFuncs ==
    {<<1, Nothing>>, <<51, Opens("fssrv_IStorage")>>, <<200, Opens("fssrv_IStorage")>>,
     <<203, Opens("fssrv_IStorage")>>, <<1005, Answers(8)>>}

IFileSystemProxy == Register(<<1, 2, 7, 8, 9, 11, 12, 13, 17, 18, 19, 21, 22, 23, 24, 25, 26,
        27, 30, 31, 32, 51, 52, 53, 57, 58, 59, 60, 61, 80, 100, 110, 200, 201, 202, 203, 400,
        500, 501, 600, 601, 602, 603, 604, 605, 606, 607, 607, 609, 610, 620, 800, 1000, 1001,
        1002, 1003, 1004, 1005, 1006>>, IFileSystemProxyFuncs)

fssrv_IStorageFuncs ==
    {<<0, Needs("B", Nothing)>>}

fssrv_IStorage == Register(<<0, 1, 2, 3, 4>>, fssrv_IStorageFuncs)

IAppletResourceFuncs ==
    {<<0, Moves("sharedMemory")>>}

IAppletResource == Register(<<0>>, IAppletResourceFuncs)

IHidServerFuncs ==
    {<<0, Opens("IAppletResource")>>}
    \cup {<<id, Nothing>> : id \in {11, 100, 102, 103, 120}}

IHidServer == Register(<<0, 1, 11, 21, 31, 40, 41, 51, 55, 56, 58, 59, 60, 61, 62, 63, 64, 65,
        66, 67, 68, 69, 70, 71, 72, 73, 74, 75, 76, 77, 78, 79, 80, 81, 82, 91, 100, 101, 102,
        103, 104, 106, 107, 108, 120, 121, 122, 123, 124, 125, 126, 127, 128, 129, 130, 131,
        132, 200, 201, 202, 203, 204, 205, 206, 300, 301, 302, 400, 401, 402, 1000, 1001>>,
        IHidServerFuncs)

ILogServiceFuncs ==
    {<<0, Opens("ILogger")>>}

ILogService == Register(<<0>>, ILogServiceFuncs)

ILoggerFuncs ==
    {<<0, Needs("X", Acts("debugBreak", Nothing))>>}

ILogger == Register(<<0, 1>>, ILoggerFuncs)

IGeneralService == Register(<<1, 2, 4, 5, 6, 7, 8, 9, 10, 11, 12, 13, 14, 15, 16, 17, 18, 19,
        20, 21, 22, 23, 24, 25, 26, 27, 28, 29, 30, 31, 32, 33>>, NoFuncs)

nifm_IStaticServiceFuncs ==
    {<<4, Opens("IGeneralService")>>}

nifm_IStaticService == Register(<<4, 5>>, nifm_IStaticServiceFuncs)

IParentalControlServiceFactoryFuncs ==
    {<<0, Nothing>>}

IParentalControlServiceFactory == Register(<<0>>, IParentalControlServiceFactoryFuncs)

ISettingsServerFuncs ==
    {<<1, Needs("C", Answers(4))>>}

ISettingsServer == Register(<<0, 1, 3, 4>>, ISettingsServerFuncs)

time_IStaticServiceFuncs ==
    {<<0, Opens("ISystemClock")>>, <<1, Opens("ISystemClock")>>,
     <<2, Opens("ISteadyClock")>>, <<3, Opens("ITimeZoneService")>>}

time_IStaticService == Register(<<0, 1, 2, 3, 4, 100, 101, 200>>, time_IStaticServiceFuncs)

ISteadyClock == Register(<<0, 2, 3, 100, 101, 102, 200, 201>>, NoFuncs)

ISystemClockFuncs ==
    {<<0, Answers(8)>>}

ISystemClock == Register(<<0, 1, 2, 3>>, ISystemClockFuncs)

ITimeZoneServiceFuncs ==
    {<<101, Answers(32)>>}

ITimeZoneService == Register(<<0, 1, 2, 3, 4, 5, 100, 101, 201, 202>>, ITimeZoneServiceFuncs)

CreateStrayLayer ==
    Needs("B", Acts("intoBuffer", AlsoAnswers(16, Opens("IHOSBinderDriver"))))

IApplicationDisplayServiceFuncs ==
    {<<100, Opens("IHOSBinderDriver")>>, <<101, Opens("ISystemDisplayService")>>,
     <<102, Opens("IManagerDisplayService")>>, <<103, Opens("IHOSBinderDriver")>>,
     <<1010, Answers(8)>>, <<2020, Needs("B", Answers(8))>>, <<2101, Nothing>>,
     <<5202, Copies("event")>>, <<2030, CreateStrayLayer>>}

IApplicationDisplayService == Register(<<100, 101, 102, 103, 1000, 1010, 1011, 1020, 1101, 1102,
        2020, 2021, 2030, 2031, 2101, 2450, 2451, 2460, 5202, 5203>>,
        IApplicationDisplayServiceFuncs)

IApplicationRootService == Register(<<0>>, NoFuncs)

IManagerDisplayServiceFuncs ==
    {<<2010, Acts("createLayer", Answers(8))>>, <<6000, Nothing>>}

IManagerDisplayService == Register(<<1102, 2010, 2011, 2050, 2051, 2052, 2053, 2054, 2055, 2300,
        2301, 2302, 2402, 4201, 4203, 4205, 6000, 6001, 6002, 7000, 8000, 8100>>,
        IManagerDisplayServiceFuncs)

IManagerRootServiceFuncs ==
    {<<2, Opens("IApplicationDisplayService")>>}

IManagerRootService == Register(<<2, 3>>, IManagerRootServiceFuncs)

ISystemDisplayServiceFuncs ==
    {<<2205, Nothing>>}

ISystemDisplayService == Register(<<1200, 1202, 1203, 1204, 2201, 2203, 2204, 2205, 2207, 2209,
        2312, 2400, 2401, 2402, 3000, 3001, 3002, 3200, 3201, 3202, 3203, 3204, 3205, 3206,
        3207, 3208, 3209, 3210, 3211, 3214, 3215, 3216, 3217>>, ISystemDisplayServiceFuncs)

ISystemRootServiceFuncs ==
    {<<1, Opens("IApplicationDisplayService")>>}

ISystemRootService == Register(<<1, 3>>, ISystemRootServiceFuncs)

IHOSBinderDriverFuncs ==
    {<<1, Nothing>>, <<2, Copies("native")>>}
    \cup {<<id, Needs("A", Needs("B", Acts("transact", Nothing)))>> : id \in {0, 3}}

IHOSBinderDriver == Register(<<0, 1, 2, 3>>, IHOSBinderDriverFuncs)

INvDrvServicesFuncs ==
    {<<0, Needs("A", Acts("openDevice", Answers(8)))>>,
     <<1, Needs("A", Needs("B", Acts("ioctl", Answers(4))))>>,
     <<4, AlsoAnswers(4, Copies("query"))>>}
    \cup {<<id, Answers(4)>> : id \in {2, 3, 8}}

INvDrvServices == Register(<<0, 1, 2, 3, 4, 5, 6, 7, 8, 9, 10, 11, 12, 13>>,
        INvDrvServicesFuncs)

----------------------------------------------------------------------------
(* Dispatch and the registry.                                              *)

Interfaces ==
    [ SmService |-> SmService,
      IAccountServiceForApplication |-> IAccountServiceForApplication,
      IManagerForApplication |-> IManagerForApplication,
      INotifier |-> INotifier,
      IProfile |-> IProfile,
      IAllSystemAppletProxiesService |-> IAllSystemAppletProxiesService,
      IApplicationFunctions |-> IApplicationFunctions,
      IApplicationProxy |-> IApplicationProxy,
      IApplicationProxyService |-> IApplicationProxyService,
      IAudioController |-> IAudioController,
      ICommonStateGetter |-> ICommonStateGetter,
      IDebugFunctions |-> IDebugFunctions,
      IDisplayController |-> IDisplayController,
      ILibraryAppletCreator |-> ILibraryAppletCreator,
      ILibraryAppletProxy |-> ILibraryAppletProxy,
      IProcessWindingController |-> IProcessWindingController,
      ISelfController |-> ISelfController,
      am_IStorage |-> am_IStorage,
      IStorageAccessor |-> IStorageAccessor,
      IWindowController |-> IWindowController,
      IAddOnContentManager |-> IAddOnContentManager,
      IManager |-> IManager,
      ISession |-> ISession,
      IFileSystemProxy |-> IFileSystemProxy,
      fssrv_IStorage |-> fssrv_IStorage,
      IAppletResource |-> IAppletResource,
      IHidServer |-> IHidServer,
      ILogService |-> ILogService,
      ILogger |-> ILogger,
      IGeneralService |-> IGeneralService,
      nifm_IStaticService |-> nifm_IStaticService,
      IParentalControlServiceFactory |-> IParentalControlServiceFactory,
      ISettingsServer |-> ISettingsServer,
      time_IStaticService |-> time_IStaticService,
      ISteadyClock |-> ISteadyClock,
      ISystemClock |-> ISystemClock,
      ITimeZoneService |-> ITimeZoneService,
      IApplicationDisplayService |-> IApplicationDisplayService,
      IApplicationRootService |-> IApplicationRootService,
      IManagerDisplayService |-> IManagerDisplayService,
      IManagerRootService |-> IManagerRootService,
      ISystemDisplayService |-> ISystemDisplayService,
      ISystemRootService |-> ISystemRootService,
      IHOSBinderDriver |-> IHOSBinderDriver,
      INvDrvServices |-> INvDrvServices ]

\* Interface::handleSyncRequest calls the first entry with the id of the command.
Entries(interface, cmdId) ==
    {k \in DOMAIN Interfaces[interface] : Interfaces[interface][k].id = cmdId}

FindFunction(interface, cmdId) ==
    LET first == CHOOSE k \in Entries(interface, cmdId) :
                     \A j \in Entries(interface, cmdId) : k <= j
    IN  Interfaces[interface][first].func

Knows(interface, cmdId) == Entries(interface, cmdId) # {}

\* SmService::internal::registerService, called by addService of the constructors
\* that service::init runs: the name of a service and its module.
Registrations ==
    {<<"acc:u0", "IAccountServiceForApplication">>, <<"appletAE",
     "IAllSystemAppletProxiesService">>, <<"appletOE", "IApplicationProxyService">>,
     <<"aoc:u", "IAddOnContentManager">>, <<"apm", "IManager">>, <<"fsp-srv",
     "IFileSystemProxy">>, <<"hid", "IHidServer">>, <<"lm", "ILogService">>, <<"nifm:u",
     "nifm_IStaticService">>, <<"nifm:a", "nifm_IStaticService">>, <<"nifm:s",
     "nifm_IStaticService">>, <<"pctl", "IParentalControlServiceFactory">>, <<"pctl:a",
     "IParentalControlServiceFactory">>, <<"pctl:s", "IParentalControlServiceFactory">>,
     <<"pctl:r", "IParentalControlServiceFactory">>, <<"set", "ISettingsServer">>,
     <<"time:u", "time_IStaticService">>, <<"vi:u", "IApplicationRootService">>, <<"vi:m",
     "IManagerRootService">>, <<"vi:s", "ISystemRootService">>, <<"nvdrv",
     "INvDrvServices">>, <<"nvdrv:a", "INvDrvServices">>, <<"nvdrv:s", "INvDrvServices">>,
     <<"nvdrv:t", "INvDrvServices">>}

gRegisteredServices ==
    [name \in {r[1] : r \in Registrations} |->
        (CHOOSE r \in Registrations : r[1] = name)[2]]

\* addNamedPort: the only named port.
gNamedPorts == [name \in {"sm:"} |-> "SmService"]
=============================================================================
