------------------------------ MODULE PanelPages ------------------------------
(***************************************************************************)
(* The operations of the browser pages of LukePanel (web/assets/app.js),   *)
(* as data.  A click or a submitted form starts one async handler; what    *)
(* the shell can tell apart about a handler is the sequence of awaits it   *)
(* makes and of the shell calls between them.  One definition per page     *)
(* lists its operations, in the order and with the guards of the code:     *)
(*                                                                         *)
(*   awaits   confirm  props.confirm(...): "no" returns from the handler   *)
(*            read     api(GET)            sread   secureApi(GET)          *)
(*            plain    api(POST ...)       secure  secureApi(POST ...)     *)
(*            upload   uploadApi(...)      load    a reload() that reports *)
(*                                                 its own errors          *)
(*   calls    busy     setWorking(true), undone in the handler's finally   *)
(*            success  props.notify('success', ...)                        *)
(*            close    props.closeModal()  drop    setModal(null)          *)
(*            open     props.openModal(...), the dialog named by opens     *)
(*                                                                         *)
(*   from     "page", or the dialog whose button starts the operation      *)
(*   gate     when the button is disabled: "page" while the page's working *)
(*            state is set (busy: working), "key" while working names this *)
(*            very button, "own" while a handler of the same form runs     *)
(*            (the form's own busy state), "none" never.  A dialog built   *)
(*            by openModal holds the value working had when it was built,  *)
(*            so its busy: working disables nothing.                       *)
(*   caught   FALSE for a handler with no catch around its awaits          *)
(*                                                                         *)
(* Local validation that shows a warning and returns starts no handler.    *)
(* Links (downloads, exports) and reads into page state are not            *)
(* operations; the page loaders are modelled in PageData.                  *)
(***************************************************************************)
EXTENDS Sequences, Naturals

Op(page, from, gate, names, steps) ==
    {[name |-> n, page |-> page, from |-> from, gate |-> gate, steps |-> steps,
      opens |-> "none", caught |-> TRUE] : n \in names}

Opening(ops, dialog) == {[o EXCEPT !.opens = dialog] : o \in ops}
Uncaught(ops) == {[o EXCEPT !.caught = FALSE] : o \in ops}
Asking(steps) == <<"confirm">> \o steps

(* A button that only opens a dialog.                                      *)
Opener(page, from, dialog) ==
    Opening(Op(page, from, "none", {dialog}, <<"open">>), dialog)

(* The shape most pages share: setWorking, secureApi, success, reload.     *)
Mutate == <<"busy", "secure", "success", "load">>
-----------------------------------------------------------------------------
ServicesOps ==
         Op("services", "page", "key", {"start", "restart", "stop"}, Mutate)
    \cup Opening(Op("services", "page", "none", {"logs"}, <<"read", "open">>), "report")

ProcessesOps ==
    Op("processes", "page", "none", {"terminate", "kill"},
       Asking(<<"secure", "success", "load">>))

TaskCreateOps ==
    Op("tasks", "task form", "own", {"create"}, <<"secure", "close", "success", "load">>)

TasksOps ==
         Opener("tasks", "page", "task form")
    \cup Op("tasks", "page", "none", {"run", "enable", "disable"}, <<"secure", "success", "load">>)
    \cup Op("tasks", "page", "none", {"delete"}, Asking(<<"secure", "success", "load">>))

UpdatesOps ==
         Op("updates", "page", "page", {"find"}, <<"busy", "read">>)
    \cup Opening(Op("updates", "page", "page", {"download", "upgrade"},
                    Asking(<<"busy", "secure", "success", "open", "load">>)), "report")
    \cup Op("updates", "page", "page", {"quiet download", "quiet upgrade"}, Asking(Mutate))
    \cup Opening(Op("updates", "page", "none", {"install", "remove"},
                    Asking(<<"busy", "secure", "success", "open", "load", "load">>)), "report")
    \cup Op("updates", "page", "none", {"enable", "disable"}, <<"secure", "success", "load">>)
    \cup Op("updates", "page", "none", {"delete"}, Asking(<<"secure", "success", "load">>))
    \cup Opener("updates", "page", "source form")
    \cup Op("updates", "source form", "none", {"add"}, <<"secure", "close", "success", "load">>)

HostOps ==
         Op("host", "page", "page", {"base"}, <<"busy", "secure", "secure", "success", "load">>)
    \cup Op("host", "page", "page", {"dns", "ntp", "swap", "sysctl"}, Mutate)
    \cup Op("host", "page", "page", {"delete swap"}, Asking(Mutate))

SnapshotsOps ==
         Op("snapshots", "page", "page", {"restore", "delete", "delete backup"}, Asking(Mutate))
    \cup Op("snapshots", "page", "page", {"create backup"}, Mutate)
    \cup Op("snapshots", "page", "none", {"import"}, Asking(<<"busy", "secure", "success">>))
-----------------------------------------------------------------------------
ComposeEditorOps ==
    Op("docker", "compose editor", "own", {"save"}, <<"secure", "success", "load", "close">>)

DockerImageOps ==
    Op("docker", "image form", "none", {"pull", "tag"}, Mutate \o <<"close">>)

DockerContainerOps ==
         Op("docker", "page", "none", {"start", "restart"}, Mutate)
    \cup Op("docker", "page", "none", {"stop", "kill", "remove"}, Asking(Mutate))
    \cup Opening(Op("docker", "page", "none", {"logs"}, <<"sread", "open">>), "report")
    \cup Opener("docker", "page", "diagnostic form")
    \cup Opening(Op("docker", "diagnostic form", "none", {"exec"}, <<"secure", "open">>), "report")
    \cup Opening(Op("docker", "page", "none", {"edit"}, <<"sread", "open">>), "container form")
    \cup Op("docker", "container form", "none", {"recreate"}, Mutate \o <<"close">>)

DockerFormOps ==
         Op("docker", "page", "none", {"up", "restart project"}, Mutate)
    \cup Op("docker", "page", "none", {"down"}, Asking(Mutate))
    \cup Opening(Op("docker", "page", "none", {"edit project"}, <<"sread", "open">>), "compose editor")
    \cup Opener("docker", "page", "docker form")
    \cup Op("docker", "docker form", "none", {"create"}, Mutate \o <<"close">>)
    \cup Opener("docker", "page", "image form")
    \cup Opening(Op("docker", "page", "none", {"volume tools"}, <<"read", "open">>), "volume form")
    \cup Op("docker", "volume form", "none", {"backup"}, Mutate \o <<"close">>)
    \cup Op("docker", "volume form", "none", {"restore"}, Asking(Mutate \o <<"close">>))
    \cup Opening(Op("docker", "page", "none", {"cleanup"}, <<"read", "open">>), "cleanup form")
    \cup Op("docker", "cleanup form", "none", {"clean"}, Asking(Mutate \o <<"close">>))

DockerListOps ==
         Op("docker", "page", "page", {"install"}, Mutate)
    \cup Op("docker", "page", "none", {"delete image", "delete network", "delete volume"},
            Asking(Mutate))
-----------------------------------------------------------------------------
(* A rename, move or delete of a favourite is followed by one or two       *)
(* preference writes inside the same try.                                  *)
FollowUp(prefs) == <<"busy", "secure">> \o prefs \o <<"success", "load", "close">>

FilesEditorOps ==
         Opening(Op("files", "page", "none", {"open"}, <<"busy", "sread", "sread", "open">>), "editor")
    \cup Opening(Op("files", "page", "none", {"view"}, <<"busy", "sread", "open">>), "report")
    \cup Uncaught(Op("files", "editor", "own", {"save"}, <<"secure", "load", "success">>))
    \cup Op("files", "editor", "none", {"close"}, Asking(<<"close">>))
    \cup Opening(Op("files", "editor", "none", {"history"}, Asking(<<"sread", "open">>)), "history")

FilesHistoryOps ==
         Opening(Op("files", "file menu", "none", {"history"}, <<"sread", "open">>), "history")
    \cup Op("files", "file menu", "none", {"download"}, <<"sread">>)
    \cup Opening(Op("files", "history", "none", {"diff"}, <<"sread", "open">>), "diff")
    \cup Op("files", "history", "none", {"restore"}, Asking(<<"secure", "load", "success", "close">>))
    \cup Uncaught(Op("files", "diff", "none", {"restore this"},
                     Asking(<<"secure", "load", "success", "close">>)))

FilesMenuOps ==
         Opener("files", "page", "file menu")
    \cup Opening(Op("files", "file menu", "none", {"open"}, <<"close", "busy", "sread", "sread", "open">>),
                 "editor")
    \cup Opener("files", "page", "name form")
    \cup Opener("files", "file menu", "name form")
    \cup Op("files", "name form", "none", {"create", "copy", "chmod", "chown", "archive"},
            Mutate \o <<"close">>)
    \cup Op("files", "name form", "none", {"rename", "move"}, Mutate \o <<"close">>)
    \cup Op("files", "name form", "none", {"rename favourite"}, FollowUp(<<"plain", "plain">>))
    \cup Op("files", "file menu", "none", {"delete"}, Asking(Mutate \o <<"close">>))
    \cup Op("files", "file menu", "none", {"delete favourite"}, Asking(FollowUp(<<"plain">>)))
    \cup Op("files", "page", "none", {"favourite"}, <<"busy", "plain", "success">>)

FilesTransferOps ==
         Op("files", "page", "page", {"upload"}, <<"busy", "upload", "upload", "success", "load">>)
    \cup Op("files", "page", "none", {"upload zip"}, <<"busy", "upload", "success", "load">>)
    \cup Opener("files", "page", "search form")
    \cup Opening(Op("files", "search form", "none", {"search"}, <<"read", "open">>), "report")
    \cup Op("files", "page", "none", {"recycle restore"}, Mutate)
    \cup Op("files", "page", "none", {"purge"}, Asking(Mutate))
-----------------------------------------------------------------------------
ToolsOps == Op("tools", "page", "page", {"run"}, <<"busy", "plain">>)

ReleaseAssetsOps ==
    Op("github", "assets", "none", {"upload asset"}, <<"upload", "success", "load">>)

GitHubAccountOps ==
         Op("github", "page", "none", {"choose repository"}, <<"busy", "read">>)
    \cup Op("github", "page", "page", {"read repository"}, <<"busy", "read">>)
    \cup Opener("github", "page", "token form")
    \cup Op("github", "token form", "none", {"connect"}, <<"busy", "plain", "read", "close", "success">>)
    \cup Op("github", "page", "page", {"device login"}, <<"busy", "plain">>)
    \cup Op("github", "page", "none", {"disconnect"}, Asking(<<"plain", "success">>))

GitHubRepoOps ==
         Opening(Op("github", "page", "none", {"actions run"}, <<"read", "open">>), "jobs")
    \cup Opening(Op("github", "jobs", "none", {"job log"}, <<"read", "open">>), "report")
    \cup Op("github", "page", "none", {"preview import"}, <<"busy", "upload", "success">>)
    \cup Op("github", "page", "page", {"commit import"}, Asking(Mutate))
    \cup Opener("github", "page", "assets")

GitHubViewOps ==
         Uncaught(Op("github", "page", "none", {"cancel device login"}, <<"plain">>))
    \cup Op("github", "page", "none", {"rerun"}, Mutate)
    \cup Opener("github", "page", "repo form")
    \cup Op("github", "repo form", "none", {"branch", "tag", "pull", "release"}, Mutate \o <<"close">>)
    \cup Op("github", "repo form", "none", {"merge"}, Asking(Mutate \o <<"close">>))
-----------------------------------------------------------------------------
SSHFormOps ==
         Opener("ssh", "page", "ssh form")
    \cup Op("ssh", "ssh form", "none", {"add key", "create user"}, Mutate \o <<"close">>)
    \cup Opening(Op("ssh", "ssh form", "none", {"generate key"}, Mutate \o <<"open">>), "secret")

SSHViewOps ==
         Op("ssh", "page", "page", {"settings"}, Mutate)
    \cup Op("ssh", "page", "page", {"password"}, Asking(Mutate))
    \cup Op("ssh", "page", "none", {"keep port", "restore port", "sudo"}, Mutate)
    \cup Op("ssh", "page", "none", {"delete key", "delete user"}, Asking(Mutate))

SecurityRuleOps ==
         Op("security", "page", "page", {"add rule", "notifications", "allowlist kept"},
            <<"busy", "secure", "load", "success">>)
    \cup Op("security", "page", "page", {"delete rule"}, Asking(<<"busy", "secure", "load", "success">>))
    \cup Opening(Op("security", "page", "page", {"allowlist"},
                    <<"busy", "secure", "load", "open">>), "secret")

SecurityViewOps ==
         Op("security", "page", "page", {"check", "enable", "disable"},
            Asking(<<"busy", "secure", "load", "success">>))
    \cup Op("security", "page", "page", {"install", "confirm", "ignore"}, <<"busy", "secure", "load", "success">>)
    \cup Op("security", "page", "none", {"unban", "stop ignoring"}, <<"busy", "secure", "load", "success">>)

SettingsActionOps ==
         Opening(Op("settings", "page", "page", {"begin totp"}, <<"busy", "secure", "open">>), "totp form")
    \cup Opening(Op("settings", "totp form", "none", {"confirm totp"},
                    <<"busy", "secure", "close", "open", "load", "success">>), "secret")
    \cup Opening(Op("settings", "page", "page", {"new codes"},
                    Asking(<<"busy", "secure", "open", "load", "success">>)), "secret")
    \cup Op("settings", "page", "page", {"disable totp"}, Asking(<<"busy", "secure", "load", "success">>))
    \cup Op("settings", "page", "page", {"add passkey"}, <<"busy", "secure", "secure", "load", "success">>)
    \cup Opener("settings", "page", "upgrade form")
    \cup Op("settings", "upgrade form", "own", {"upgrade"}, <<"plain", "close", "load", "success">>)

SettingsViewOps ==
         Op("settings", "page", "page", {"username", "password", "preferences"},
            <<"busy", "plain", "load", "success">>)
    \cup Op("settings", "page", "none", {"delete passkey"}, Asking(<<"busy", "secure", "load", "success">>))
    \cup Op("settings", "page", "none", {"revoke sessions"}, <<"busy", "secure", "load", "success">>)

(* The prompt the shell itself shows once per session after a login with   *)
(* an old password hash; it is not part of any page.                       *)
KdfPromptOps == Op("shell", "kdf", "own", {"upgrade"}, <<"plain", "drop", "success">>)
-----------------------------------------------------------------------------
Operations ==
    UNION {ServicesOps, ProcessesOps, TaskCreateOps, TasksOps, UpdatesOps, HostOps,
           SnapshotsOps, ComposeEditorOps, DockerImageOps, DockerContainerOps,
           DockerFormOps, DockerListOps, FilesEditorOps, FilesHistoryOps, FilesMenuOps,
           FilesTransferOps, ToolsOps, ReleaseAssetsOps, GitHubAccountOps,
           GitHubRepoOps, GitHubViewOps, SSHFormOps, SSHViewOps, SecurityRuleOps,
           SecurityViewOps, SettingsActionOps, SettingsViewOps, KdfPromptOps}

(* Pages with no operation of their own (System, Network, Storage,         *)
(* Dashboard, Audit) are all like the dashboard to the shell.              *)
Pages == {"dashboard"} \cup ({o.page : o \in Operations} \ {"shell"})
=============================================================================
