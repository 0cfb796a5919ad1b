------------------------------ MODULE Install ------------------------------
(* The installer of a self-hosted shop (install.sh): the first run with its  *)
(* questions, the run that finishes an interrupted one, the menu of an       *)
(* installed shop and the uninstall. What a run leaves behind is on disk: the*)
(* .env, the answers file, the rendered Caddyfile, the generated profiles,   *)
(* the images, the Postgres volume and the containers. A run may stop between*)
(* any two steps: a failure, Ctrl+C, a power cut; the folder may be deleted  *)
(* while Docker keeps the volume.                                            *)
(*                                                                           *)
(* Docker Compose is modelled from how the scripts use it: `up -d` creates a *)
(* container again when its image or its part of the configuration changed,  *)
(* and not when only the content of a mounted file did.                      *)
EXTENDS Integers, FiniteSets

CONSTANTS Modes,       \* bound: the kinds of address the owner chooses from
          Domains,     \* the domain names
          Lans,        \* this computer's own private addresses
          Printers,    \* OrcaSlicer's printers; any of them may fail to generate
          Passwords,   \* admin passwords
          Shops,       \* names and contact details
          Rates,       \* materials and prices
          Extras,      \* mail, courier, Telegram and map keys
          MaxRuns,     \* bound: runs of the script
          MaxStops,    \* bound: runs that stop half-way
          MaxFresh,    \* bound: installs that begin without an .env
          None

VARIABLES env,         \* the .env
          answers,     \* .selfhost/answers
          caddyfile,   \* .selfhost/Caddyfile
          profiles,    \* .selfhost/profiles: the printer, and which directory it is
          image,       \* the images built last
          volume,      \* the Postgres volume
          up,          \* the containers
          run,         \* the run under way
          asked,       \* the shop settings the owner gave last
          said,        \* how the last run ended
          halved,      \* a run stopped between the profiles and the .env that names their
                       \* printer, and none has put them together since
          fresh, runs, stops

vars == <<env, answers, caddyfile, profiles, image, volume, up, run, asked,
          said, halved, fresh, runs, stops>>
disk == <<env, answers, caddyfile, profiles>>
docker == <<image, volume, up>>
counts == <<halved, fresh, runs, stops>>

Pending == "pending-install"
Services == {"web", "worker", "proxy", "caddy", "postgres"}
Down == [s \in Services |-> None]
Quiet == [pc |-> "idle", kind |-> None, cfg |-> None, ans |-> None]
At(pc) == run.pc = pc
Kind(kinds) == run.kind \in kinds
Goto(pc) == run' = [run EXCEPT !.pc = pc]
End(what) == run' = Quiet /\ said' = what
Installing == {"fresh", "resume"}

(* The questions. An answer is asked for again until it is valid, so only    *)
(* valid ones come out.                                                      *)
pick_listed_printer == Printers
sec_shop == Shops
sec_materials == Rates
sec_admin == Passwords
sec_integrations == Extras
sec_local_access == {"127.0.0.1"} \union Lans
sec_own_tunnel_access == {"127.0.0.1"} \union Lans
sec_address ==
  { [mode |-> m, domain |-> d, bind |-> b] :
      m \in Modes \ {"local", "owntunnel"}, d \in Domains, b \in {None} }
  \union { [mode |-> m, domain |-> d, bind |-> b] :
      m \in Modes \cap {"owntunnel"}, d \in Domains, b \in sec_own_tunnel_access }
  \union { [mode |-> m, domain |-> "localhost", bind |-> b] :
      m \in Modes \cap {"local"}, b \in sec_local_access }

Answers ==
  { [shop |-> s, rates |-> r, address |-> a, printer |-> p, password |-> w, extras |-> x] :
      s \in sec_shop, p \in pick_listed_printer, a \in sec_address, w \in sec_admin,
      r \in sec_materials, x \in sec_integrations }

(* https://<domain>; in local mode http://<address>.                         *)
site_url(cfg) ==
  IF cfg.address.mode = "local" THEN <<"http", cfg.address.bind>>
                                ELSE <<"https", cfg.address.domain>>

(* The part of the configuration the address decides. The edge network keeps *)
(* its subnet, a mode without Caddy has none, and Cloudflare's limit on a    *)
(* request caps the uploads behind a tunnel.                                 *)
pick_subnet ==
  CHOOSE n \in 1..2 : up["caddy"] = None \/ up["caddy"].edge # n
Capped(mode) == mode \in {"tunnel", "owntunnel"}
configure_env_Sticky(cfg, a) ==
  [cfg EXCEPT !.address = a,
              !.edge = IF a.mode = "proxy" THEN None
                       ELSE IF cfg.edge # None THEN cfg.edge ELSE pick_subnet,
              !.upload = IF Capped(a.mode) THEN 95 ELSE @]
configure_env(cfg, a) ==
  [cfg EXCEPT !.address = a,
              !.edge = IF a.mode = "proxy" THEN None
                       ELSE IF cfg.edge # None THEN cfg.edge ELSE pick_subnet,
              !.upload = IF Capped(a.mode) THEN 95 ELSE IF @ = 95 THEN 300 ELSE @]

(* A first configuration; the passwords are drawn once.                      *)
generate_secrets == fresh + 1
Configured(ans) ==
  configure_env([state |-> "configured", address |-> None, edge |-> None, upload |-> 300,
                 pw |-> generate_secrets, hash |-> Pending,
                 printer |-> ans.printer, extras |-> ans.extras], ans.address)

render(cfg) == IF cfg.address.mode = "proxy" THEN None
               ELSE [mode |-> cfg.address.mode, upload |-> cfg.upload,
                     domain |-> IF cfg.address.mode = "caddy" THEN cfg.address.domain ELSE None]

(* What Compose compares of a service: its image and what of the             *)
(* configuration its definition names. Local and own-tunnel mode use the     *)
(* same files; only in caddy mode are the ports fixed.                       *)
compose_files_for_mode(mode) ==
  IF mode = "owntunnel" THEN "local" ELSE mode
Spec_of(s, cfg) ==
  CASE s = "web" -> <<image, site_url(cfg), cfg.pw, cfg.hash, cfg.extras, cfg.upload>>
    [] s = "worker" -> <<image, cfg.pw>>
    [] s = "proxy" -> <<image, cfg.edge>>
    [] s = "caddy" -> <<compose_files_for_mode(cfg.address.mode), cfg.address.bind, cfg.edge>>
    [] s = "postgres" -> cfg.pw
(* What it holds from then on: the Caddyfile it read, the profiles it mounted*)
Reads(s) ==
  CASE s = "caddy" -> caddyfile
    [] s \in {"web", "worker"} -> profiles
    [] OTHER -> None

dc_up(these, forced, cfg) ==
  up' = [s \in Services |->
           IF s = "caddy" /\ "caddy" \in these /\ cfg.address.mode = "proxy" THEN None
           ELSE IF s \in these /\ (up[s] = None \/ s \in forced \/ up[s].spec # Spec_of(s, cfg))
             THEN [spec |-> Spec_of(s, cfg), reads |-> Reads(s), edge |-> cfg.edge]
             ELSE up[s]]

Init ==
  /\ env = None /\ answers = None /\ caddyfile = None /\ profiles = None
  /\ image = 0 /\ volume = None /\ up = Down
  /\ run = Quiet /\ asked = None /\ said = ""
  /\ halved = FALSE /\ fresh = 0 /\ runs = 0 /\ stops = 0

Begin(kind, pc, cfg, ans) ==
  /\ run' = [pc |-> pc, kind |-> kind, cfg |-> cfg, ans |-> ans]
  /\ said' = "" /\ runs' = runs + 1

Shop(ans) == [shop |-> ans.shop, rates |-> ans.rates]

(* A server without an .env: all the questions come before the first write.  *)
Wizard ==
  /\ At("idle") /\ runs < MaxRuns /\ env = None /\ fresh < MaxFresh
  /\ \E ans \in Answers :
       Begin("fresh", "write", Configured(ans), ans) /\ asked' = Shop(ans)
  /\ fresh' = fresh + 1
  /\ UNCHANGED <<disk, docker, halved, stops>>

write_env(next) ==
  /\ At("write") /\ env' = run.cfg
  /\ Goto(next)
  /\ halved' = (halved /\ ~Kind({"printer"}))
  /\ UNCHANGED <<answers, caddyfile, profiles, docker, asked, said, fresh, runs, stops>>
WriteEnv == write_env(CASE Kind({"fresh"}) -> "save"
                        [] Kind({"address"}) -> "caddy"
                        [] OTHER -> "recreate")

(* The password is never written to the answers.                             *)
save_answers ==
  /\ At("save") /\ answers' = Shop(run.ans) /\ Goto("caddy")
  /\ UNCHANGED <<env, caddyfile, profiles, docker, asked, said, counts>>

(* An .env that says "configured": the saved answers stand, lost ones and an *)
(* admin password that was never set are asked for again.                    *)
resume_install ==
  /\ At("idle") /\ runs < MaxRuns /\ env # None /\ env.state # "installed"
  /\ \E again \in {Shop(a) : a \in Answers}, w \in sec_admin \union {None} :
       /\ answers # None => again = answers
       /\ (w = None) <=> (env.hash # Pending)
       /\ Begin("resume", "caddy", env,
                [shop |-> again.shop, rates |-> again.rates, password |-> w])
       /\ answers' = again
       /\ asked' = again
  /\ UNCHANGED <<env, caddyfile, profiles, docker, halved, fresh, stops>>

(* The menu of an installed shop.                                            *)
Menu(kind, pc, cfg, ans) ==
  /\ At("idle") /\ runs < MaxRuns /\ env # None /\ env.state = "installed"
  /\ Begin(kind, pc, cfg, ans)
  /\ UNCHANGED <<disk, docker, halved, fresh, stops>>

Rebuild == Menu("rebuild", "caddy", env, None) /\ UNCHANGED asked
ChangeAddress_KeepUp ==
  /\ \E a \in sec_address : Menu("address", "write", configure_env(env, a), None)
  /\ UNCHANGED asked
ChangeAddress ==
  /\ \E a \in sec_address :
       Menu("address", IF a.mode = env.address.mode THEN "write" ELSE "down",
            configure_env(env, a), None)
  /\ UNCHANGED asked
ChangePassword ==
  /\ \E w \in sec_admin : Menu("password", "password", env, [password |-> w])
  /\ UNCHANGED asked
configure_integrations(cfg, x) == [cfg EXCEPT !.extras = x]
ChangeExtras ==
  /\ \E x \in sec_integrations : Menu("extras", "write", configure_integrations(env, x), None)
  /\ UNCHANGED asked
ChangePrinter ==
  /\ \E p \in pick_listed_printer :
       Menu("printer", "profiles", [env EXCEPT !.printer = p], None)
  /\ UNCHANGED asked
StartOver ==
  \E s \in sec_shop, r \in sec_materials :
    /\ Menu("settings", "seed", env, [shop |-> s, rates |-> r])
    /\ asked' = [shop |-> s, rates |-> r]

(* Another kind of address: its networks are made again.                     *)
DownForMode ==
  /\ At("down") /\ up' = Down /\ Goto("write")
  /\ UNCHANGED <<disk, image, volume, asked, said, counts>>

render_caddyfile ==
  /\ At("caddy") /\ caddyfile' = render(run.cfg)
  /\ Goto(CASE Kind(Installing) -> "reconcile"
            [] Kind({"rebuild"}) -> "build"
            [] Kind({"address"}) -> "up")
  /\ UNCHANGED <<env, answers, profiles, docker, asked, said, counts>>

(* A volume left by an earlier install keeps the password it was made with.  *)
(* The owner keeps the data, deletes it, or quits.                           *)
Reconciled(v) == [v EXCEPT !.pw = run.cfg.pw]
reconcile_database_Trusting ==
  /\ At("reconcile") /\ Goto("build")
  /\ IF volume = None THEN UNCHANGED up ELSE dc_up({"postgres"}, {}, run.cfg)
  /\ UNCHANGED <<disk, image, volume, asked, said, counts>>
reconcile_database ==
  /\ At("reconcile")
  /\ \/ volume = None /\ Goto("build") /\ UNCHANGED <<volume, up, said>>
     \/ /\ volume # None /\ volume.pw = run.cfg.pw /\ Goto("build")
        /\ dc_up({"postgres"}, {}, run.cfg) /\ UNCHANGED <<volume, said>>
     \/ /\ volume # None /\ volume.pw # run.cfg.pw
        /\ \/ /\ volume' = Reconciled(volume) /\ Goto("build")
              /\ dc_up({"postgres"}, {}, run.cfg) /\ UNCHANGED said
           \/ volume' = None /\ up' = Down /\ Goto("build") /\ UNCHANGED said
           \/ /\ End("nothing was changed")
              /\ dc_up({"postgres"}, {}, run.cfg) /\ UNCHANGED volume
  /\ UNCHANGED <<disk, image, asked, counts>>

(* A build may give the images it gave before.                               *)
build_images ==
  /\ At("build")
  /\ image' \in {image + 1} \union (IF image > 0 THEN {image} ELSE {})
  /\ Goto("profiles")
  /\ UNCHANGED <<disk, volume, up, asked, said, counts>>

(* The new set is made beside the old one, which is removed only then.       *)
Generate_RemoveFirst ==
  /\ At("profiles") /\ profiles' = None
  /\ \/ Goto("mv") /\ UNCHANGED said
     \/ End(IF Kind({"printer"}) THEN "kept the previous printer" ELSE "pick another printer")
  /\ UNCHANGED <<env, answers, caddyfile, docker, asked, counts>>
Generate ==
  /\ At("profiles")
  /\ \/ Goto("mv") /\ profiles' = None /\ UNCHANGED said
     \/ /\ End(IF Kind({"printer"}) THEN "kept the previous printer" ELSE "pick another printer")
        /\ UNCHANGED profiles
  /\ UNCHANGED <<env, answers, caddyfile, docker, asked, counts>>
generate_printer_profiles ==
  /\ At("mv") /\ profiles' = [printer |-> run.cfg.printer, dir |-> runs]
  /\ Goto(CASE Kind(Installing) -> "password"
            [] Kind({"rebuild"}) -> "up"
            [] Kind({"printer"}) -> "write")
  /\ halved' = (halved /\ Kind({"printer"}))
  /\ UNCHANGED <<env, answers, caddyfile, docker, asked, said, fresh, runs, stops>>

(* Without a new password a hash already in place is kept.                   *)
set_admin_password ==
  /\ At("password")
  /\ LET cfg == [run.cfg EXCEPT !.hash = IF run.ans.password = None THEN @ ELSE run.ans.password]
     IN /\ env' = cfg
        /\ run' = [run EXCEPT !.cfg = cfg, !.pc = IF Kind(Installing) THEN "up" ELSE "recreate"]
  /\ UNCHANGED <<answers, caddyfile, profiles, docker, asked, said, counts>>

(* Compose starts Postgres, which makes a volume it does not find, then the  *)
(* migrations, then the services that wait for them.                         *)
NewVolume(migrated) == [pw |-> run.cfg.pw, shop |-> None, rates |-> None,
                        migrated |-> migrated, born |-> run.kind]
Locked == volume # None /\ volume.pw # run.cfg.pw
Migrate ==
  volume' = IF volume = None THEN NewVolume(TRUE) ELSE [volume EXCEPT !.migrated = TRUE]
Recreated == IF Kind({"printer"}) THEN {"web", "worker"} ELSE {"web"}
Starting ==
  IF At("up") THEN dc_up(Services, {}, run.cfg)
              ELSE dc_up(Recreated \union {"postgres"}, Recreated, run.cfg)
start_stack ==
  /\ At("up") \/ At("recreate")
  /\ IF Locked THEN End("wrong database password") /\ UNCHANGED <<volume, up>>
               ELSE Migrate /\ Starting /\ Goto("health") /\ UNCHANGED said
  /\ UNCHANGED <<disk, image, asked, counts>>

(* The web refuses to start with the marker in place of a hash.              *)
Healthy == /\ \A s \in {"web", "worker", "proxy"} : up[s] # None
           /\ env.hash # Pending
wait_healthy ==
  /\ At("health")
  /\ IF ~Healthy THEN End("did not come up")
     ELSE IF Kind(Installing) THEN Goto("seed") /\ UNCHANGED said
     ELSE End("done")
  /\ UNCHANGED <<disk, docker, asked, counts>>

(* One setting after the other, over what is there: the shop, then the rates.*)
(* Without the tables psql fails.                                            *)
seed_shop_settings ==
  /\ At("seed")
  /\ IF volume = None \/ ~volume.migrated
       THEN /\ volume' = IF volume = None THEN NewVolume(FALSE) ELSE volume
            /\ End("saving the shop settings failed")
       ELSE /\ volume' = [volume EXCEPT !.shop = run.ans.shop]
            /\ Goto("rates") /\ UNCHANGED said
  /\ UNCHANGED <<disk, image, up, asked, counts>>
seed_rates ==
  /\ At("rates") /\ volume' = [volume EXCEPT !.rates = run.ans.rates]
  /\ IF Kind({"settings"}) THEN End("saved") ELSE Goto("installed") /\ UNCHANGED said
  /\ UNCHANGED <<disk, image, up, asked, counts>>

install_from_build ==
  /\ At("installed") /\ env' = [run.cfg EXCEPT !.state = "installed"] /\ Goto("forget")
  /\ UNCHANGED <<answers, caddyfile, profiles, docker, asked, said, counts>>
Forget ==
  /\ At("forget") /\ answers' = None /\ End("done")
  /\ UNCHANGED <<env, caddyfile, profiles, docker, asked, counts>>

(* --uninstall, or the menu: the containers go; the data only when asked     *)
(* twice.                                                                    *)
uninstall ==
  /\ At("idle") /\ runs < MaxRuns /\ env # None /\ runs' = runs + 1
  /\ up' = Down /\ said' = "uninstalled" /\ volume' \in {volume, None}
  /\ UNCHANGED <<disk, image, run, asked, halved, fresh, stops>>

(* The folder is deleted; Docker keeps the containers and the volume.        *)
DeleteFolder ==
  /\ At("idle") /\ env # None /\ fresh < MaxFresh
  /\ env' = None /\ answers' = None /\ caddyfile' = None /\ profiles' = None
  /\ said' = ""
  /\ UNCHANGED <<docker, run, asked, counts>>

(* die, Ctrl+C or a power cut before the next step.                          *)
Stop ==
  /\ ~At("idle") /\ stops < MaxStops /\ stops' = stops + 1 /\ End("stopped")
  /\ halved' = (halved \/ At("mv") \/ (At("write") /\ Kind({"printer"})))
  /\ UNCHANGED <<disk, docker, asked, fresh, runs>>

Finished == At("idle") /\ (runs = MaxRuns \/ (env = None /\ fresh = MaxFresh))
Done == Finished /\ UNCHANGED vars

Next ==
  \/ Wizard \/ WriteEnv \/ save_answers \/ resume_install
  \/ Rebuild \/ ChangeAddress \/ ChangePassword \/ ChangeExtras \/ ChangePrinter \/ StartOver
  \/ DownForMode \/ render_caddyfile \/ reconcile_database \/ build_images
  \/ Generate \/ generate_printer_profiles \/ set_admin_password
  \/ start_stack \/ wait_healthy \/ seed_shop_settings \/ seed_rates
  \/ install_from_build \/ Forget \/ uninstall \/ DeleteFolder \/ Stop \/ Done

Spec == Init /\ [][Next]_vars

-----------------------------------------------------------------------------
Configs ==
  [state : {"configured", "installed"}, address : sec_address, edge : {None} \union 1..2,
   upload : {95, 300}, pw : Nat, hash : Passwords \union {Pending}, printer : Printers, extras : Extras]
Kinds == Installing \union {"rebuild", "address", "password", "extras", "printer", "settings"}
Volumes ==
  [pw : Nat, shop : Shops \union {None}, rates : Rates \union {None}, migrated : BOOLEAN, born : Kinds]
Profiles == [printer : Printers, dir : Nat]
TypeOK ==
  /\ env \in Configs \union {None}
  /\ answers \in [shop : Shops, rates : Rates] \union {None}
  /\ volume \in Volumes \union {None} /\ profiles \in Profiles \union {None}
  /\ run.pc # "idle" => run.cfg \in Configs
  /\ \A s \in Services : up[s] = None \/ DOMAIN up[s] = {"spec", "reads", "edge"}

(* Postgres reads its password only when it makes the volume: whatever was   *)
(* interrupted, deleted or kept, no run ends with a database it cannot open. *)
NeverLocked == said # "wrong database password"

(* "web never starts with it": with the marker in place of the hash.         *)
PendingNeverServed ==
  up["web"] # None => up["web"].spec[4] # Pending

(* An .env that says installed: the admin password is real, and the database *)
(* it came with holds the shop the owner described. A volume made later,     *)
(* after the data was deleted, has no settings.                              *)
InstalledIsWhole ==
  env # None /\ env.state = "installed" =>
    /\ env.hash # Pending
    /\ volume # None /\ volume.born \in Installing =>
         volume.shop # None /\ volume.rates # None
  
(* A run that ended well seeded what the owner answered last, across the     *)
(* interruptions before it.                                                  *)
AnswersKept ==
  At("forget") => volume.shop = asked.shop /\ volume.rates = asked.rates

(* After a run that ended well the web runs with the .env as it is, and      *)
(* Caddy with the mode and the upload limit it names: a change of mode never *)
(* leaves the old Caddy in front of the new site.                            *)
DoneIsServed ==
  At("idle") /\ said = "done" /\ up["web"] # None =>
    /\ up["web"].spec = Spec_of("web", env)
    /\ up["caddy"] # None =>
         /\ up["caddy"].reads.mode = env.address.mode
         /\ up["caddy"].reads.upload = env.upload
    /\ Capped(env.address.mode) <=> env.upload = 95

(* "Kept the previous printer": the profiles on disk are whole, and those of *)
(* the printer in the .env, through any runs that were stopped. The exception*)
(* is a run stopped after the old profiles were removed and before the .env  *)
(* names the printer of the new ones (lib.sh:434, install.sh:1002): until    *)
(* profiles are made again, a printer that fails to generate is answered the *)
(* same, and there are none or those of a printer the .env does not name.    *)
PrinterKept ==
  said = "kept the previous printer" /\ ~halved =>
    profiles # None /\ profiles.printer = env.printer

InstallTrue == /\ TypeOK /\ NeverLocked /\ PendingNeverServed /\ InstalledIsWhole
               /\ AnswersKept /\ DoneIsServed /\ PrinterKept
=============================================================================
