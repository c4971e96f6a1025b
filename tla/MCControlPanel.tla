-------------------------- MODULE MCControlPanel --------------------------
EXTENDS ControlPanel

Fresh == [os |-> "windows", user |-> "root", kernel |-> "bare", boot |-> "bare", pkgs |-> "none",
          docker |-> FALSE, binder |-> "none", py |-> FALSE, image |-> FALSE, tar |-> "none",
          zip |-> "none", near |-> "none", far |-> "none", workers |-> [i \in Index |-> "none"]]
Able == [Fresh EXCEPT !.kernel = "able", !.boot = "able", !.pkgs = "all"]
Rebooted == [Able EXCEPT !.py = TRUE, !.near = "whole", !.image = TRUE,
               !.workers = [i \in Index |-> "stopped"]]
Ready == [Able EXCEPT !.py = TRUE, !.near = "whole", !.image = TRUE, !.docker = TRUE,
            !.binder = "populated"]
Working1 == [Ready EXCEPT !.workers[0] = "up"]

Old == [form |-> "saved", apk |-> "none", own |-> "own"]
Start(h, cmd) == [host |-> h, runs |-> cmd, kept |-> {}, luck |-> 1]

\* A fresh Windows host with the image and the APK bundle beside the code; one
\* that only lacks the bundle; one after a reboot; one whose workers are being
\* managed, or with a setup in a terminal; one that starts workers with another
\* image beside the code and a backup of the settings; a native host where Docker
\* was used with sudo; and native hosts with a partial bundle and a stray mount,
\* with Docker for sudo only, and with a stray mount that only root could take
\* away.
MCStarts ==
  {Start([Fresh EXCEPT !.tar = "whole", !.near = "whole"], "none"),
   Start([Ready EXCEPT !.near = "none"], "none"),
   Start(Rebooted, "none"),
   [Start([Ready EXCEPT !.image = FALSE, !.tar = "other"], "start-workers") EXCEPT !.kept = {Old}],
   Start([Fresh EXCEPT !.os = "linux", !.user = "sudo", !.near = "whole", !.pkgs = "engine",
            !.docker = TRUE, !.image = TRUE], "none"),
   [Start([Able EXCEPT !.os = "linux", !.binder = "empty", !.near = "partial"], "none") EXCEPT !.luck = 0],
   Start([Ready EXCEPT !.os = "linux", !.user = "sudo"], "none"),
   [Start([Ready EXCEPT !.os = "linux", !.user = "granted", !.binder = "empty"], "none") EXCEPT !.luck = 2]}
  \union {Start(Working1, cmd) : cmd \in {"setup", "restart-worker", "stop-workers"}}
===========================================================================
