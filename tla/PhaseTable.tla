----------------------------- MODULE PhaseTable -----------------------------
(***************************************************************************)
(* The pipeline of `apply` and, for every phase, how its Run may end: the  *)
(* statuses it can record and whether it can ask for a reboot.             *)
(***************************************************************************)
EXTENDS Sequences

applyPhases ==
  <<"apt_health", "ubuntu_upgrade", "base_packages", "nvidia_driver", "cuda", "edid",
    "headless_user", "desktop_packages", "desktop_runtime", "kwin_patch",
    "kwin_session", "drm_display_validate", "sunshine_build", "sunshine_config",
    "tailscale", "pipewire_audio", "gpu_capture_capability_probe",
    "streaming_services", "stream_validate", "optional_apps">>

(* Most phases record success or a fatal failure and nothing else. *)
failPhase == {"failed_fatal"}
DoneOrFatal == {"done"} \cup failPhase

(* The CUDA toolkit is required or optional: optional, its failure is a skip. *)
CudaAptPath == DoneOrFatal \cup {"skipped"}
CudaRunfilePath == DoneOrFatal \cup {"skipped"}
CudaVerifyAndFinish == DoneOrFatal \cup {"skipped"}
CudaPlan == DoneOrFatal \cup {"skipped"}

(* The patched KWin may be given up for the packaged one. *)
KWinPatchFailure == {"skipped", "failed_fatal"}

(* How Run may end once it marked the phase running. *)
AptHealth == DoneOrFatal
UbuntuUpgrade == failPhase \cup {"reboot"}
BasePackages == DoneOrFatal
NvidiaDriver == DoneOrFatal \cup {"reboot"}
Cuda == CudaPlan \cup CudaAptPath \cup CudaRunfilePath \cup CudaVerifyAndFinish
Edid == DoneOrFatal \cup {"reboot"}
HeadlessUser == DoneOrFatal
DesktopPackages == DoneOrFatal
DesktopRuntime == DoneOrFatal
KWinPatch == {"done"} \cup KWinPatchFailure
KWinAdoption == {"done"}
KWinGate == failPhase
KWinSession == DoneOrFatal \cup KWinAdoption \cup KWinGate
DRMOutputMissing == DoneOrFatal
DRMDisplayValidate == DoneOrFatal \cup DRMOutputMissing
SunshineInstall == DoneOrFatal
SunshineBuild == DoneOrFatal \cup SunshineInstall
SunshineConfig == DoneOrFatal
Tailscale == DoneOrFatal \cup {"skipped"}
PipeWireAudio == DoneOrFatal \cup {"skipped"}
GPUCaptureCapabilityProbe == DoneOrFatal
StreamingServices == DoneOrFatal
StreamMarkers == DoneOrFatal \cup {"pending_moonlight_connect"}
StreamValidate == DoneOrFatal \cup StreamMarkers
OptionalApps == {"done", "skipped", "failed_nonfatal"}

BodyEndsOf(name) ==
  [apt_health |-> AptHealth, ubuntu_upgrade |-> UbuntuUpgrade,
   base_packages |-> BasePackages, nvidia_driver |-> NvidiaDriver, cuda |-> Cuda,
   edid |-> Edid, headless_user |-> HeadlessUser, desktop_packages |-> DesktopPackages,
   desktop_runtime |-> DesktopRuntime, kwin_patch |-> KWinPatch,
   kwin_session |-> KWinSession, drm_display_validate |-> DRMDisplayValidate,
   sunshine_build |-> SunshineBuild, sunshine_config |-> SunshineConfig,
   tailscale |-> Tailscale, pipewire_audio |-> PipeWireAudio,
   gpu_capture_capability_probe |-> GPUCaptureCapabilityProbe,
   streaming_services |-> StreamingServices, stream_validate |-> StreamValidate,
   optional_apps |-> OptionalApps][name]

(* How Run may end without having marked it running. *)
UbuntuUpgradeEarly == DoneOrFatal \cup {"skipped"}
EdidEarly == {"skipped"}
KWinPatchEarly == {"skipped"}

EarlyEndsOf(name) ==
  CASE name = "ubuntu_upgrade" -> UbuntuUpgradeEarly
    [] name = "edid" -> EdidEarly
    [] name = "kwin_patch" -> KWinPatchEarly
    [] OTHER -> {}

(* Tailscale runs again after a skip once its key is there. *)
Reopens(name) == name = "tailscale"
=============================================================================
