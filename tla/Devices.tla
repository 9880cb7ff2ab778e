------------------------------- MODULE Devices -------------------------------
(***************************************************************************)
(* The GPU device files (gpu/): for each device the ioctls it implements,  *)
(* with the size of the structure the ioctl reads from the input buffer    *)
(* and of the one it writes to the output buffer (0 where it writes none). *)
(* The values are left out; nvmap's objects are modelled in Display.       *)
(***************************************************************************)
EXTENDS Naturals, TLC

Ioctl(in, out) == [in |-> in, out |-> out]

\* GetConfig
NvhostCtrlInterface == 27 :> Ioctl(387, 387)

\* ZcullGetCtxSize, ZcullGetInfo, GetCharacteristics, GetTpcMasks, GetL2State
NvhostCtrlGpuInterface ==
    1 :> Ioctl(0, 4) @@ 2 :> Ioctl(0, 40) @@ 5 :> Ioctl(176, 176)
        @@ 6 :> Ioctl(24, 24) @@ 20 :> Ioctl(0, 8)

\* IocCreate, IocFromId, IocAlloc, IocParam, IocGetId
NvmapInterface ==
    1 :> Ioctl(8, 8) @@ 3 :> Ioctl(8, 8) @@ 4 :> Ioctl(32, 32)
        @@ 9 :> Ioctl(12, 12) @@ 14 :> Ioctl(8, 8)

\* BindChannel, AllocSpace, MapBufferEx, Initialize, GetVaRegions, InitializeEx
NvhostAsGpuInterface ==
    1 :> Ioctl(4, 0) @@ 2 :> Ioctl(24, 24) @@ 6 :> Ioctl(40, 40)
        @@ 7 :> Ioctl(16, 0) @@ 8 :> Ioctl(64, 64) @@ 9 :> Ioctl(40, 0)

\* SetNvmapFd, AllocObjCtx, ZcullBind, SetErrorNotifier, SetPriority, SetUserData,
\* AllocGpfifoEx2 (which fills a fence in and never writes it out)
NvhostGpuInterface ==
    1 :> Ioctl(4, 0) @@ 9 :> Ioctl(12, 12) @@ 11 :> Ioctl(16, 0) @@ 12 :> Ioctl(24, 0)
        @@ 13 :> Ioctl(4, 0) @@ 20 :> Ioctl(1, 0) @@ 26 :> Ioctl(32, 0)

\* gpu::handleman::connectToDevice: the path of each device
DevicePaths == [ nvhost_ctrl     |-> NvhostCtrlInterface,
                 nvhost_ctrl_gpu |-> NvhostCtrlGpuInterface,
                 nvmap           |-> NvmapInterface,
                 nvhost_as_gpu   |-> NvhostAsGpuInterface,
                 nvhost_gpu      |-> NvhostGpuInterface ]

ERR_NOT_IMPLEMENTED == 1

\* DeviceInterface::handleIoctl (the low byte of the command is the id)
handleIoctl(device, id) ==
    IF id \in DOMAIN DevicePaths[device] THEN 0 ELSE ERR_NOT_IMPLEMENTED
=============================================================================
