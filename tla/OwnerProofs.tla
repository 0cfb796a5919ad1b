------------------------------ MODULE OwnerProofs ------------------------------
(***************************************************************************)
(* Theorems about what the owner of a shop runs, as MCOwner composes it,   *)
(* for any rates, orders, printers, replicas, addresses and bounds: what   *)
(* orders are billed, and what the server runs with (the installer, the    *)
(* rights of the runtime roles, the operator's alerts, the login's limit). *)
(***************************************************************************)
EXTENDS EditorProofs


-----------------------------------------------------------------------------
(* The installer.                                                          *)

MenuKinds == Shop!Kinds \ Shop!Installing
Builds == Shop!Installing \cup {"rebuild"}

Installed == env \in Shop!Configs /\ env.state = "installed"

\* Which runs come to which step.
OnPath ==
  /\ run.pc = "write" => run.kind \in {"fresh", "address", "extras", "printer"}
  /\ run.pc = "save" => run.kind = "fresh"
  /\ run.pc = "down" => run.kind = "address"
  /\ run.pc = "caddy" => run.kind \in Builds \cup {"address"}
  /\ run.pc \in {"reconcile", "installed", "forget"} => run.kind \in Shop!Installing
  /\ run.pc = "build" => run.kind \in Builds
  /\ run.pc \in {"profiles", "mv"} => run.kind \in Builds \cup {"printer"}
  /\ run.pc = "password" => run.kind \in Shop!Installing \cup {"password"}
  /\ run.pc = "up" => run.kind \in Builds \cup {"address"}
  /\ run.pc = "recreate" => run.kind \in {"password", "extras", "printer"}
  /\ run.pc = "health" => run.kind # "settings"
  /\ run.pc \in {"seed", "rates"} => run.kind \in Shop!Installing \cup {"settings"}

ShopTypes ==
  /\ Shop!TypeOK /\ DOMAIN up = Shop!Services
  /\ fresh \in Nat /\ runs \in Nat /\ stops \in Nat
\* Nothing is said of a run until it ends.
Running ==
  \/ run = Shop!Quiet
  \/ /\ run.pc # "idle" /\ said = "" /\ run.kind \in Shop!Kinds /\ OnPath
     /\ run = [pc |-> run.pc, kind |-> run.kind, cfg |-> run.cfg, ans |-> run.ans]

\* A configuration has an edge network unless a proxy is in front, and Cloudflare's limit behind a tunnel.
Sound(cfg) ==
  /\ cfg.edge = Null <=> cfg.address.mode = "proxy"
  /\ Shop!Capped(cfg.address.mode) <=> cfg.upload = 95
Configurations ==
  /\ env # Null => Sound(env)
  /\ run.pc # "idle" => Sound(run.cfg)

\* The steps before the .env is written.
Ahead == run.pc \in {"write", "down"} \/ (run.kind = "printer" /\ run.pc \in {"profiles", "mv"})
\* What the .env says of a run.
Written ==
  run.pc # "idle" =>
    /\ ~Ahead /\ run.pc # "forget" => env = run.cfg
    /\ run.pc = "forget" => env = [run.cfg EXCEPT !.state = "installed"]
    /\ run.kind \in Shop!Installing => run.cfg.state = "configured"
    /\ run.kind = "fresh" /\ run.pc = "write" => env = Null
    /\ run.kind \in MenuKinds =>
         /\ Installed /\ run.cfg.state = "installed" /\ run.cfg.pw = env.pw
         /\ run.cfg.hash = env.hash \/ run.kind = "password"
         /\ run.cfg.printer = env.printer \/ run.kind = "printer"

\* The answers of a run are those the owner gave last, with a password where one is due.
Answered ==
  /\ run.kind \in Shop!Installing \cup {"settings"} =>
       /\ run.ans.shop \in Shops /\ run.ans.rates \in SeededRates
       /\ asked.shop = run.ans.shop /\ asked.rates = run.ans.rates
  /\ run.kind \in Shop!Installing \cup {"password"} =>
       /\ run.ans.password \in Passwords \cup {Null}
       /\ run.ans.password = Null => run.cfg.hash # Shop!Pending

\* The marker in place of the hash is gone before the web starts.
Hashed ==
  /\ Installed => env.hash # Shop!Pending
  /\ run.kind \in MenuKinds => run.cfg.hash # Shop!Pending
  /\ run.pc \in {"up", "recreate", "health", "seed", "rates", "installed", "forget"} =>
       run.cfg.hash # Shop!Pending

Checked == {"build", "profiles", "mv", "password", "up", "health", "seed", "rates", "installed", "forget"}
\* The volume opens with the password of the .env, and holds what was seeded.
Opened ==
  /\ Installed => volume = Null \/ volume.pw = env.pw
  /\ run.kind \in Shop!Installing /\ run.pc \in Checked => volume = Null \/ volume.pw = run.cfg.pw
Seeded ==
  /\ run.pc \in {"rates", "installed", "forget"} => volume \in Shop!Volumes /\ volume.shop = run.ans.shop
  /\ run.pc \in {"installed", "forget"} => volume.rates = run.ans.rates
  /\ Installed /\ volume # Null /\ volume.born \in Shop!Installing => volume.shop # Null /\ volume.rates # Null

\* The profiles are those of the printer in the .env, or of the one it is about to name.
Mounted ==
  /\ run.kind \in Shop!Installing /\ run.pc \in Checked \ {"build", "profiles", "mv"} =>
       profiles \in Shop!Profiles /\ profiles.printer = run.cfg.printer
  /\ run.kind = "printer" /\ run.pc = "write" =>
       profiles \in Shop!Profiles /\ profiles.printer = run.cfg.printer
  /\ Installed /\ ~halved /\ run.pc # "mv" /\ ~(run.kind = "printer" /\ run.pc = "write") =>
       profiles \in Shop!Profiles /\ profiles.printer = env.printer
  /\ said = "kept the previous printer" => Installed /\ run.pc = "idle"

\* A running Caddy was made for a configuration.
MadeFor(cfg) ==
  up["caddy"] # Null =>
    up["caddy"].reads.mode = cfg.address.mode /\ up["caddy"].reads.upload = cfg.upload
\* One left over from a deleted folder is on another network, so it will be made again.
Fronted ==
  /\ up["caddy"] # Null => up["caddy"].edge \in 1..2 /\ up["caddy"].spec[3] = up["caddy"].edge
  /\ env # Null => MadeFor(env) \/ up["caddy"].edge # env.edge
  /\ run.pc \notin {"idle", "down"} => MadeFor(run.cfg) \/ up["caddy"].edge # run.cfg.edge
  /\ Installed => MadeFor(env)
  /\ run.kind \in MenuKinds /\ run.pc # "down" => MadeFor(run.cfg)
  /\ run.pc \in {"health", "seed", "rates", "installed", "forget"} => MadeFor(run.cfg)
  /\ run.pc \in Checked \cup {"reconcile"} /\ run.pc \notin {"health", "seed", "rates", "installed", "forget"}
     /\ run.kind \notin {"printer", "password"} => caddyfile = Shop!render(run.cfg)

\* The web runs with the configuration of a run that has started it.
WebSpec(cfg) == <<image, Shop!site_url(cfg), cfg.pw, cfg.hash, cfg.extras, cfg.upload>>
Served ==
  /\ up["web"] # Null => up["web"].spec[4] # Shop!Pending
  /\ run.pc \in {"health", "seed", "rates", "installed", "forget"} /\ run.kind # "settings" =>
       up["web"].spec = WebSpec(run.cfg)
  /\ said = "done" => run.pc = "idle" /\ env # Null

ShopInv ==
  /\ ShopTypes /\ Running /\ Configurations /\ Written /\ Answered /\ Hashed /\ Opened /\ Seeded
  /\ Mounted /\ Fronted /\ Served
  /\ Shop!NeverLocked /\ Shop!DoneIsServed

\* A run that goes on is the same run.
LEMMA UnderWay ==
  ASSUME Running, run.pc # "idle"
  PROVE  /\ run = [pc |-> run.pc, kind |-> run.kind, cfg |-> run.cfg, ans |-> run.ans]
         /\ run.kind \in Shop!Kinds /\ OnPath /\ said = ""
<1>1. Shop!Quiet.pc = "idle"
  BY DEF Shop!Quiet
<1>2. run # Shop!Quiet
  BY <1>1
<1>. QED BY <1>2 DEF Running

LEMMA RunMoves ==
  ASSUME Running, run.pc # "idle", NEW p, Shop!Goto(p)
  PROVE  /\ run' = [pc |-> p, kind |-> run.kind, cfg |-> run.cfg, ans |-> run.ans]
         /\ run'.pc = p /\ run'.kind = run.kind /\ run'.cfg = run.cfg /\ run'.ans = run.ans
  BY UnderWay DEF Shop!Goto

LEMMA SaveKeeps ==
  ASSUME ShopInv, Shop!save_answers
  PROVE  ShopInv'
<1>. USE DEF ShopInv, Shop!Installing, Shop!Kinds, MenuKinds, Builds, Checked
<1>1. /\ run.pc = "save" /\ run.pc # "idle" /\ Shop!Goto("caddy") /\ answers' = Shop!Shop(run.ans)
      /\ UNCHANGED <<env, caddyfile, profiles, image, volume, up, asked, said, halved, fresh, runs, stops>>
  BY DEF Shop!save_answers, Shop!At, Shop!docker, Shop!counts
<1>2. /\ run' = [pc |-> "caddy", kind |-> run.kind, cfg |-> run.cfg, ans |-> run.ans]
      /\ run'.pc = "caddy" /\ run'.kind = run.kind /\ run'.cfg = run.cfg /\ run'.ans = run.ans
  BY <1>1, RunMoves
<1>3. run.kind = "fresh" /\ said = ""
  BY <1>1, UnderWay DEF OnPath
<1>4. ShopTypes'
  <2>1. run.ans.shop \in Shops /\ run.ans.rates \in SeededRates
    BY <1>3 DEF Answered
  <2>. QED BY <1>1, <1>2, <2>1 DEF ShopTypes, Shop!TypeOK, Shop!Shop
<1>5. Running' /\ Configurations'
  BY <1>1, <1>2, <1>3 DEF Running, OnPath, Configurations, Sound
<1>6. Written'
  BY <1>1, <1>2, <1>3 DEF Written, Ahead, Installed
<1>7. Answered'
  BY <1>1, <1>2 DEF Answered
<1>8. Hashed'
  BY <1>1, <1>2 DEF Hashed, Installed
<1>9. Opened' /\ Seeded'
  BY <1>1, <1>2 DEF Opened, Seeded, Installed
<1>10. Mounted'
  BY <1>1, <1>2 DEF Mounted, Installed
<1>11. Fronted'
  BY <1>1, <1>2 DEF Fronted, MadeFor, Installed
<1>12. Served' /\ Shop!NeverLocked' /\ Shop!DoneIsServed'
  BY <1>1, <1>2, <1>3 DEF Served, Shop!NeverLocked, Shop!DoneIsServed, Shop!At
<1>. QED BY <1>4, <1>5, <1>6, <1>7, <1>8, <1>9, <1>10, <1>11, <1>12

\* The caddy step renders the file of the run's configuration.
LEMMA RenderKeeps ==
  ASSUME ShopInv, Shop!render_caddyfile
  PROVE  ShopInv'
<1>. USE DEF ShopInv, Shop!Installing, Shop!Kinds, MenuKinds, Builds, Checked
<1>1. /\ run.pc = "caddy" /\ run.pc # "idle" /\ caddyfile' = Shop!render(run.cfg)
      /\ UNCHANGED <<env, answers, profiles, image, volume, up, asked, said, halved, fresh, runs, stops>>
  BY DEF Shop!render_caddyfile, Shop!At, Shop!docker, Shop!counts
<1>2. run.kind \in {"fresh", "resume", "rebuild", "address"} /\ said = ""
  BY <1>1, UnderWay DEF OnPath
<1>3. PICK p : /\ Shop!Goto(p) /\ (run.kind \in {"fresh", "resume"} => p = "reconcile")
               /\ (run.kind = "rebuild" => p = "build") /\ (run.kind = "address" => p = "up")
  BY <1>2 DEF Shop!render_caddyfile, Shop!Kind
<1>4. /\ run' = [pc |-> p, kind |-> run.kind, cfg |-> run.cfg, ans |-> run.ans]
      /\ run'.pc = p /\ run'.kind = run.kind /\ run'.cfg = run.cfg /\ run'.ans = run.ans
  BY <1>1, <1>3, RunMoves
<1>5. ShopTypes'
  BY <1>1, <1>4 DEF ShopTypes, Shop!TypeOK
<1>6. Running' /\ Configurations'
  BY <1>1, <1>2, <1>3, <1>4, ZenonT(40) DEF Running, OnPath, Configurations, Sound
<1>7. Written' /\ Answered'
  BY <1>1, <1>2, <1>3, <1>4 DEF Written, Ahead, Installed, Answered
<1>8. Hashed' /\ Opened' /\ Seeded'
  BY <1>1, <1>2, <1>3, <1>4 DEF Hashed, Opened, Seeded, Written, Installed
<1>9. Mounted'
  BY <1>1, <1>2, <1>3, <1>4 DEF Mounted, Installed
<1>10. Fronted'
  BY <1>1, <1>2, <1>3, <1>4 DEF Fronted, MadeFor, Installed
<1>11. Served' /\ Shop!NeverLocked' /\ Shop!DoneIsServed'
  BY <1>1, <1>2, <1>3, <1>4 DEF Served, Shop!NeverLocked, Shop!DoneIsServed, Shop!At
<1>. QED BY <1>5, <1>6, <1>7, <1>8, <1>9, <1>10, <1>11

LEMMA BuildKeeps ==
  ASSUME ShopInv, Shop!build_images
  PROVE  ShopInv'
<1>. USE DEF ShopInv, Shop!Installing, Shop!Kinds, MenuKinds, Builds, Checked
<1>1. /\ run.pc = "build" /\ run.pc # "idle" /\ Shop!Goto("profiles")
      /\ UNCHANGED <<env, answers, caddyfile, profiles, volume, up, asked, said, halved, fresh, runs, stops>>
  BY DEF Shop!build_images, Shop!At, Shop!disk, Shop!counts
<1>2. run.kind \in {"fresh", "resume", "rebuild"} /\ said = ""
  BY <1>1, UnderWay DEF OnPath
<1>3. /\ run' = [pc |-> "profiles", kind |-> run.kind, cfg |-> run.cfg, ans |-> run.ans]
      /\ run'.pc = "profiles" /\ run'.kind = run.kind /\ run'.cfg = run.cfg /\ run'.ans = run.ans
  BY <1>1, RunMoves
<1>4. ShopTypes'
  BY <1>1, <1>3 DEF ShopTypes, Shop!TypeOK
<1>5. Running' /\ Configurations'
  BY <1>1, <1>2, <1>3 DEF Running, OnPath, Configurations, Sound
<1>6. Written' /\ Answered'
  BY <1>1, <1>2, <1>3 DEF Written, Ahead, Installed, Answered
<1>7. Hashed' /\ Opened' /\ Seeded'
  BY <1>1, <1>2, <1>3 DEF Hashed, Opened, Seeded, Installed
<1>8. Mounted'
  BY <1>1, <1>2, <1>3 DEF Mounted, Installed
<1>9. Fronted'
  BY <1>1, <1>2, <1>3 DEF Fronted, MadeFor, Installed
<1>10. Served' /\ Shop!NeverLocked' /\ Shop!DoneIsServed'
  BY <1>1, <1>2, <1>3 DEF Served, Shop!NeverLocked, Shop!DoneIsServed, Shop!At
<1>. QED BY <1>4, <1>5, <1>6, <1>7, <1>8, <1>9, <1>10

\* A run that ends without having finished what it was for.
LEMMA EndKeeps ==
  ASSUME ShopInv, NEW how, Shop!End(how), run.pc # "idle",
         how \notin {"done", "wrong database password"},
         how = "kept the previous printer" => Installed,
         UNCHANGED <<env, answers, profiles, asked, fresh, runs>>,
         volume' = volume \/ (run.pc = "seed" /\ volume' = Shop!NewVolume(FALSE)),
         stops' \in Nat,
         ~halved' => ~halved /\ run.pc # "mv" /\ ~(run.kind = "printer" /\ run.pc = "write"),
         DOMAIN up' = Shop!Services, \A s \in Shop!Services \ {"postgres"} : up'[s] = up[s],
         up'["postgres"] = Null \/ DOMAIN up'["postgres"] = {"spec", "reads", "edge"}
  PROVE  ShopInv'
<1>. USE DEF ShopInv, Shop!Installing, Shop!Kinds, MenuKinds, Builds, Checked
<1>1. /\ run' = Shop!Quiet /\ said' = how
      /\ run'.pc = "idle" /\ run'.kind = Null /\ Null \notin Shop!Kinds
  BY ShopAssumption DEF Shop!End, Shop!Quiet
<1>2. up'["web"] = up["web"] /\ up'["caddy"] = up["caddy"] /\ up'["worker"] = up["worker"] /\ up'["proxy"] = up["proxy"]
  BY DEF Shop!Services
<1>3. /\ volume' \in Shop!Volumes \cup {Null}
      /\ volume' = volume \/ (run.pc = "seed" /\ volume'.pw = run.cfg.pw /\ volume'.born = run.kind)
  <2>1. CASE volume' = volume
    BY <2>1 DEF ShopTypes, Shop!TypeOK
  <2>2. CASE run.pc = "seed" /\ volume' = Shop!NewVolume(FALSE)
    <3>1. run.kind \in Shop!Kinds /\ run.cfg \in Shop!Configs
      BY UnderWay DEF ShopTypes, Shop!TypeOK
    <3>. QED BY <2>2, <3>1 DEF Shop!NewVolume, Shop!Volumes, Shop!Configs
  <2>. QED BY <2>1, <2>2
<1>4. ShopTypes'
  BY <1>1, <1>2, <1>3, ZenonT(40) DEF ShopTypes, Shop!TypeOK, Shop!Services
<1>5. Running' /\ Configurations'
  BY <1>1 DEF Running, Configurations, Sound
<1>6. Written' /\ Answered'
  BY <1>1 DEF Written, Answered
<1>7. Hashed' /\ Opened' /\ Seeded'
  <2>1. Installed /\ run.pc = "seed" => run.kind \notin Shop!Installing /\ run.cfg.pw = env.pw
    BY UnderWay DEF Written, Ahead, Installed
  <2>. QED BY <1>1, <1>3, <2>1 DEF Hashed, Opened, Seeded, Installed
<1>8. Mounted'
  BY <1>1 DEF Mounted, Installed
<1>9. Fronted'
  BY <1>1, <1>2 DEF Fronted, MadeFor, Installed
<1>10. Served' /\ Shop!NeverLocked' /\ Shop!DoneIsServed'
  BY <1>1, <1>2 DEF Served, Shop!NeverLocked, Shop!DoneIsServed, Shop!At
<1>. QED BY <1>4, <1>5, <1>6, <1>7, <1>8, <1>9, <1>10

LEMMA StopKeeps ==
  ASSUME ShopInv, Shop!Stop
  PROVE  ShopInv'
<1>1. /\ run.pc # "idle" /\ Shop!End("stopped") /\ stops' = stops + 1
      /\ UNCHANGED <<env, answers, profiles, volume, up, asked, fresh, runs>>
  BY DEF Shop!Stop, Shop!At, Shop!disk, Shop!docker
<1>2. ~halved' => ~halved /\ run.pc # "mv" /\ ~(run.kind = "printer" /\ run.pc = "write")
  BY DEF Shop!Stop, Shop!At, Shop!Kind
<1>4. stops' \in Nat
  BY <1>1 DEF ShopInv, ShopTypes
<1>3. /\ DOMAIN up' = Shop!Services /\ \A s \in Shop!Services : up'[s] = up[s]
      /\ up'["postgres"] = Null \/ DOMAIN up'["postgres"] = {"spec", "reads", "edge"}
  BY <1>1 DEF ShopInv, ShopTypes, Shop!TypeOK, Shop!Services
<1>. QED BY <1>1, <1>2, <1>3, <1>4, EndKeeps

\* Profiles are made beside the old ones, or could not be made.
LEMMA GenerateKeeps ==
  ASSUME ShopInv, Shop!Generate
  PROVE  ShopInv'
<1>. USE DEF ShopInv, Shop!Installing, Shop!Kinds, MenuKinds, Builds, Checked
<1>1. /\ run.pc = "profiles" /\ run.pc # "idle"
      /\ UNCHANGED <<env, answers, caddyfile, image, volume, up, asked, halved, fresh, runs, stops>>
  BY DEF Shop!Generate, Shop!At, Shop!docker, Shop!counts
<1>2. run.kind \in {"fresh", "resume", "rebuild", "printer"} /\ said = ""
  BY <1>1, UnderWay DEF OnPath
<1>3. CASE /\ UNCHANGED profiles
           /\ Shop!End(IF Shop!Kind({"printer"}) THEN "kept the previous printer" ELSE "pick another printer")
  <2> DEFINE how == IF run.kind = "printer" THEN "kept the previous printer" ELSE "pick another printer"
  <2>1. Shop!End(how)
    BY <1>3 DEF Shop!Kind, Shop!End
  <2>2. how \notin {"done", "wrong database password"} /\ (how = "kept the previous printer" => Installed)
    BY <1>1 DEF Written
  <2>. HIDE DEF how
  <2>3. /\ DOMAIN up' = Shop!Services /\ \A s \in Shop!Services : up'[s] = up[s]
        /\ up'["postgres"] = Null \/ DOMAIN up'["postgres"] = {"spec", "reads", "edge"}
        /\ stops' \in Nat
        /\ (~halved' => ~halved /\ run.pc # "mv" /\ ~(run.kind = "printer" /\ run.pc = "write"))
    BY <1>1 DEF ShopTypes, Shop!TypeOK, Shop!Services
  <2>. QED BY <1>1, <1>3, <2>1, <2>2, <2>3, EndKeeps
<1>4. CASE Shop!Goto("mv") /\ profiles' = Null /\ UNCHANGED said
  <2>1. /\ run' = [pc |-> "mv", kind |-> run.kind, cfg |-> run.cfg, ans |-> run.ans]
        /\ run'.pc = "mv" /\ run'.kind = run.kind /\ run'.cfg = run.cfg /\ run'.ans = run.ans
    BY <1>1, <1>4, RunMoves
  <2>2. ShopTypes'
    BY <1>1, <1>4, <2>1 DEF ShopTypes, Shop!TypeOK
  <2>3. Running' /\ Configurations'
    BY <1>1, <1>2, <1>4, <2>1 DEF Running, OnPath, Configurations, Sound
  <2>4. Written' /\ Answered'
    BY <1>1, <1>2, <2>1 DEF Written, Ahead, Installed, Answered
  <2>5. Hashed' /\ Opened' /\ Seeded'
    BY <1>1, <1>2, <2>1 DEF Hashed, Opened, Seeded, Installed
  <2>6. Mounted'
    BY <1>1, <1>2, <1>4, <2>1 DEF Mounted, Installed
  <2>7. Fronted'
    BY <1>1, <1>2, <2>1 DEF Fronted, MadeFor, Installed
  <2>8. Served' /\ Shop!NeverLocked' /\ Shop!DoneIsServed'
    BY <1>1, <1>2, <1>4, <2>1 DEF Served, Shop!NeverLocked, Shop!DoneIsServed, Shop!At
  <2>. QED BY <2>2, <2>3, <2>4, <2>5, <2>6, <2>7, <2>8
<1>. QED BY <1>3, <1>4 DEF Shop!Generate

LEMMA WriteKeeps ==
  ASSUME ShopInv, Shop!WriteEnv
  PROVE  ShopInv'
<1>. USE DEF ShopInv, Shop!Installing, Shop!Kinds, MenuKinds, Builds, Checked
<1>1. /\ run.pc = "write" /\ run.pc # "idle" /\ env' = run.cfg
      /\ UNCHANGED <<answers, caddyfile, profiles, image, volume, up, asked, said, fresh, runs, stops>>
      /\ ~halved' => ~halved \/ run.kind = "printer"
  BY DEF Shop!WriteEnv, Shop!write_env, Shop!At, Shop!Kind, Shop!docker, Shop!counts
<1>2. run.kind \in {"fresh", "address", "extras", "printer"} /\ said = "" /\ run.cfg \in Shop!Configs
  BY <1>1, UnderWay DEF OnPath, ShopTypes, Shop!TypeOK
<1>3. PICK p : /\ Shop!Goto(p) /\ (run.kind = "fresh" => p = "save") /\ (run.kind = "address" => p = "caddy")
               /\ (run.kind \in {"extras", "printer"} => p = "recreate")
  BY <1>2 DEF Shop!WriteEnv, Shop!write_env, Shop!Kind
<1>4. /\ run' = [pc |-> p, kind |-> run.kind, cfg |-> run.cfg, ans |-> run.ans]
      /\ run'.pc = p /\ run'.kind = run.kind /\ run'.cfg = run.cfg /\ run'.ans = run.ans
  BY <1>1, <1>3, RunMoves
<1>5. ShopTypes'
  BY <1>1, <1>2, <1>3, <1>4 DEF ShopTypes, Shop!TypeOK
<1>6. Running' /\ Configurations'
  BY <1>1, <1>2, <1>3, <1>4 DEF Running, OnPath, Configurations, Sound
<1>7. Written' /\ Answered'
  BY <1>1, <1>2, <1>3, <1>4 DEF Written, Ahead, Installed, Answered
<1>8. Hashed' /\ Opened' /\ Seeded'
  BY <1>1, <1>2, <1>3, <1>4 DEF Hashed, Opened, Seeded, Written, Installed
<1>9. Mounted'
  BY <1>1, <1>2, <1>3, <1>4 DEF Mounted, Written, Installed
<1>10. Fronted'
  BY <1>1, <1>2, <1>3, <1>4 DEF Fronted, MadeFor, Written, Installed
<1>11. Served' /\ Shop!NeverLocked' /\ Shop!DoneIsServed'
  BY <1>1, <1>2, <1>3, <1>4 DEF Served, Shop!NeverLocked, Shop!DoneIsServed, Shop!At
<1>. QED BY <1>5, <1>6, <1>7, <1>8, <1>9, <1>10, <1>11

LEMMA MoveProfilesKeeps ==
  ASSUME ShopInv, Shop!generate_printer_profiles
  PROVE  ShopInv'
<1>. USE DEF ShopInv, Shop!Installing, Shop!Kinds, MenuKinds, Builds, Checked
<1>1. /\ run.pc = "mv" /\ run.pc # "idle" /\ profiles' = [printer |-> run.cfg.printer, dir |-> runs]
      /\ UNCHANGED <<env, answers, caddyfile, image, volume, up, asked, said, fresh, runs, stops>>
  BY DEF Shop!generate_printer_profiles, Shop!At, Shop!docker, Shop!counts
<1>2. run.kind \in {"fresh", "resume", "rebuild", "printer"} /\ said = ""
      /\ profiles' \in Shop!Profiles /\ profiles'.printer = run.cfg.printer
  BY <1>1, UnderWay DEF OnPath, ShopTypes, Shop!TypeOK, Shop!Profiles, Shop!Configs
<1>3. PICK p : /\ Shop!Goto(p) /\ (run.kind \in {"fresh", "resume"} => p = "password")
               /\ (run.kind = "rebuild" => p = "up") /\ (run.kind = "printer" => p = "write")
  BY <1>2 DEF Shop!generate_printer_profiles, Shop!Kind
<1>4. /\ run' = [pc |-> p, kind |-> run.kind, cfg |-> run.cfg, ans |-> run.ans]
      /\ run'.pc = p /\ run'.kind = run.kind /\ run'.cfg = run.cfg /\ run'.ans = run.ans
  BY <1>1, <1>3, RunMoves
<1>5. ShopTypes'
  BY <1>1, <1>2, <1>3, <1>4 DEF ShopTypes, Shop!TypeOK
<1>6. Running' /\ Configurations'
  BY <1>1, <1>2, <1>3, <1>4, ZenonT(40) DEF Running, OnPath, Configurations, Sound
<1>7. Written' /\ Answered'
  BY <1>1, <1>2, <1>3, <1>4 DEF Written, Ahead, Installed, Answered
<1>8. Hashed' /\ Opened' /\ Seeded'
  BY <1>1, <1>2, <1>3, <1>4 DEF Hashed, Opened, Seeded, Written, Installed
<1>9. Mounted'
  <2>1. ~Ahead \/ run.kind = "printer"
    BY <1>1 DEF Ahead
  <2>. QED BY <1>1, <1>2, <1>3, <1>4, <2>1 DEF Mounted, Written, Installed
<1>10. Fronted'
  BY <1>1, <1>2, <1>3, <1>4 DEF Fronted, MadeFor, Installed
<1>11. Served' /\ Shop!NeverLocked' /\ Shop!DoneIsServed'
  BY <1>1, <1>2, <1>3, <1>4 DEF Served, Shop!NeverLocked, Shop!DoneIsServed, Shop!At
<1>. QED BY <1>5, <1>6, <1>7, <1>8, <1>9, <1>10, <1>11

\* The password that was typed, or the one in place.
LEMMA PasswordKeeps ==
  ASSUME ShopInv, Shop!set_admin_password
  PROVE  ShopInv'
<1>. USE DEF ShopInv, Shop!Installing, Shop!Kinds, MenuKinds, Builds, Checked
<1> DEFINE h == IF run.ans.password = Null THEN run.cfg.hash ELSE run.ans.password
           c == [run.cfg EXCEPT !.hash = h]
           p == IF run.kind \in Shop!Installing THEN "up" ELSE "recreate"
<1>1. /\ run.pc = "password" /\ run.pc # "idle" /\ env' = c /\ run' = [run EXCEPT !.cfg = c, !.pc = p]
      /\ UNCHANGED <<answers, caddyfile, profiles, image, volume, up, asked, said, halved, fresh, runs, stops>>
  BY DEF Shop!set_admin_password, Shop!At, Shop!Kind, Shop!docker, Shop!counts
<1>2. run.kind \in {"fresh", "resume", "password"} /\ said = "" /\ run.cfg \in Shop!Configs
  BY <1>1, UnderWay DEF OnPath, ShopTypes, Shop!TypeOK
<1>3. h \in Passwords \cup {Shop!Pending} /\ h # Shop!Pending
  <2>1. CASE run.ans.password = Null
    <3>1. run.cfg.hash # Shop!Pending
      BY <1>2, <2>1 DEF Answered
    <3>. QED BY <1>2, <2>1, <3>1 DEF Shop!Configs
  <2>2. CASE run.ans.password # Null
    <3>1. run.ans.password \in Passwords
      BY <1>2, <2>2 DEF Answered
    <3>. QED BY <2>2, <3>1, ShopAssumption
  <2>. QED BY <2>1, <2>2
<1>4. env = run.cfg
  BY <1>1 DEF Written, Ahead
<1>. HIDE DEF h
<1>5. /\ c \in Shop!Configs /\ c.hash = h /\ c.state = run.cfg.state /\ c.address = run.cfg.address
      /\ c.edge = run.cfg.edge /\ c.upload = run.cfg.upload /\ c.pw = run.cfg.pw /\ c.printer = run.cfg.printer
  BY <1>2, <1>3 DEF Shop!Configs
<1>6. Shop!render(c) = Shop!render(run.cfg)
  BY <1>5 DEF Shop!render
<1>. HIDE DEF c
<1>7. /\ run' = [pc |-> p, kind |-> run.kind, cfg |-> c, ans |-> run.ans]
      /\ run'.pc = p /\ run'.kind = run.kind /\ run'.cfg = c /\ run'.ans = run.ans
  BY <1>1, UnderWay
<1>8. ShopTypes'
  BY <1>1, <1>2, <1>3, <1>5, <1>6, <1>7 DEF ShopTypes, Shop!TypeOK
<1>9. Running' /\ Configurations'
  BY <1>1, <1>2, <1>3, <1>5, <1>6, <1>7, ZenonT(40) DEF Running, OnPath, Configurations, Sound
<1>10. Written' /\ Answered'
  BY <1>1, <1>2, <1>3, <1>5, <1>6, <1>7 DEF Written, Ahead, Installed, Answered
<1>11. Hashed' /\ Opened' /\ Seeded'
  BY <1>1, <1>2, <1>3, <1>5, <1>6, <1>7 DEF Hashed, Opened, Seeded, Written, Installed
<1>12. Mounted'
  BY <1>1, <1>2, <1>3, <1>5, <1>6, <1>7, <1>4 DEF Mounted, Written, Installed
<1>13. Fronted'
  BY <1>1, <1>2, <1>3, <1>5, <1>6, <1>7, <1>4, ZenonT(40) DEF Fronted, MadeFor, Written, Installed
<1>14. Served' /\ Shop!NeverLocked' /\ Shop!DoneIsServed'
  BY <1>1, <1>2, <1>3, <1>5, <1>6, <1>7 DEF Served, Shop!NeverLocked, Shop!DoneIsServed, Shop!At
<1>. QED BY <1>8, <1>9, <1>10, <1>11, <1>12, <1>13, <1>14

LEMMA DownKeeps ==
  ASSUME ShopInv, Shop!DownForMode
  PROVE  ShopInv'
<1>. USE DEF ShopInv, Shop!Installing, Shop!Kinds, MenuKinds, Builds, Checked
<1>1. /\ run.pc = "down" /\ run.pc # "idle" /\ Shop!Goto("write") /\ up' = [s \in Shop!Services |-> Null]
      /\ UNCHANGED <<env, answers, caddyfile, profiles, image, volume, asked, said, halved, fresh, runs, stops>>
  BY DEF Shop!DownForMode, Shop!Down, Shop!At, Shop!disk, Shop!counts
<1>2. run.kind = "address" /\ said = "" /\ up'["caddy"] = Null /\ up'["web"] = Null
  BY <1>1, UnderWay DEF OnPath, Shop!Services
<1>3. /\ run' = [pc |-> "write", kind |-> run.kind, cfg |-> run.cfg, ans |-> run.ans]
      /\ run'.pc = "write" /\ run'.kind = run.kind /\ run'.cfg = run.cfg /\ run'.ans = run.ans
  BY <1>1, RunMoves
<1>4. ShopTypes'
  BY <1>1, <1>2, <1>3 DEF ShopTypes, Shop!TypeOK
<1>5. Running' /\ Configurations'
  BY <1>1, <1>2, <1>3 DEF Running, OnPath, Configurations, Sound
<1>6. Written' /\ Answered'
  BY <1>1, <1>2, <1>3 DEF Written, Ahead, Installed, Answered
<1>7. Hashed' /\ Opened' /\ Seeded'
  BY <1>1, <1>2, <1>3 DEF Hashed, Opened, Seeded, Written, Installed
<1>8. Mounted'
  BY <1>1, <1>2, <1>3 DEF Mounted, Installed
<1>9. Fronted'
  BY <1>1, <1>2, <1>3 DEF Fronted, MadeFor, Installed
<1>10. Served' /\ Shop!NeverLocked' /\ Shop!DoneIsServed'
  BY <1>1, <1>2, <1>3 DEF Served, Shop!NeverLocked, Shop!DoneIsServed, Shop!At
<1>. QED BY <1>4, <1>5, <1>6, <1>7, <1>8, <1>9, <1>10

LEMMA InstalledKeeps ==
  ASSUME ShopInv, Shop!install_from_build
  PROVE  ShopInv'
<1>. USE DEF ShopInv, Shop!Installing, Shop!Kinds, MenuKinds, Builds, Checked
<1>1. /\ run.pc = "installed" /\ run.pc # "idle" /\ Shop!Goto("forget") /\ env' = [run.cfg EXCEPT !.state = "installed"]
      /\ UNCHANGED <<answers, caddyfile, profiles, image, volume, up, asked, said, halved, fresh, runs, stops>>
  BY DEF Shop!install_from_build, Shop!At, Shop!docker, Shop!counts
<1>2. run.kind \in {"fresh", "resume"} /\ said = "" /\ run.cfg \in Shop!Configs
  BY <1>1, UnderWay DEF OnPath, ShopTypes, Shop!TypeOK
<1>3. /\ run' = [pc |-> "forget", kind |-> run.kind, cfg |-> run.cfg, ans |-> run.ans]
      /\ run'.pc = "forget" /\ run'.kind = run.kind /\ run'.cfg = run.cfg /\ run'.ans = run.ans
  BY <1>1, RunMoves
<1>4. /\ env' \in Shop!Configs /\ env'.state = "installed" /\ env'.hash = run.cfg.hash /\ env'.address = run.cfg.address
      /\ env'.edge = run.cfg.edge /\ env'.upload = run.cfg.upload /\ env'.pw = run.cfg.pw /\ env'.printer = run.cfg.printer
  BY <1>1, <1>2 DEF Shop!Configs
<1>5. ShopTypes'
  BY <1>1, <1>2, <1>3, <1>4, ShopAssumption DEF ShopTypes, Shop!TypeOK
<1>6. Running' /\ Configurations'
  BY <1>1, <1>2, <1>3, <1>4, ShopAssumption, ZenonT(40) DEF Running, OnPath, Configurations, Sound
<1>7. Written' /\ Answered'
  BY <1>1, <1>2, <1>3, <1>4, ShopAssumption DEF Written, Ahead, Installed, Answered
<1>8. Hashed' /\ Opened' /\ Seeded'
  BY <1>1, <1>2, <1>3, <1>4, ShopAssumption DEF Hashed, Opened, Seeded, Answered, Installed
<1>9. Mounted'
  BY <1>1, <1>2, <1>3, <1>4, ShopAssumption DEF Mounted, Installed
<1>10. Fronted'
  BY <1>1, <1>2, <1>3, <1>4, ShopAssumption DEF Fronted, MadeFor, Installed
<1>11. Served' /\ Shop!NeverLocked' /\ Shop!DoneIsServed'
  BY <1>1, <1>2, <1>3, <1>4, ShopAssumption DEF Served, WebSpec, Shop!NeverLocked, Shop!DoneIsServed, Shop!At
<1>. QED BY <1>5, <1>6, <1>7, <1>8, <1>9, <1>10, <1>11

\* A run that did what it was for: what it leaves is what the .env says.
LEMMA DoneKeeps ==
  ASSUME ShopInv, Shop!End("done"), run.pc \in {"health", "forget"}, env \in Shop!Configs,
         env.address = run.cfg.address, env.pw = run.cfg.pw, env.hash = run.cfg.hash,
         env.extras = run.cfg.extras, env.upload = run.cfg.upload, answers' \in {answers, Null},
         UNCHANGED <<env, profiles, image, volume, up, asked, halved, fresh, runs, stops>>
  PROVE  ShopInv'
<1>. USE DEF ShopInv, Shop!Installing, Shop!Kinds, MenuKinds, Builds, Checked
<1>1. /\ run' = Shop!Quiet /\ said' = "done"
      /\ run'.pc = "idle" /\ run'.kind = Null /\ Null \notin Shop!Kinds
  BY ShopAssumption DEF Shop!End, Shop!Quiet
<1>2. run.pc # "idle" /\ run.kind # "settings" /\ env # Null
  BY UnderWay, ShopAssumption DEF OnPath
<1>3. Shop!Spec_of("web", env)' = WebSpec(run.cfg)
  <2>1. Shop!site_url(env) = Shop!site_url(run.cfg)
    BY DEF Shop!site_url
  <2>. QED BY <2>1 DEF Shop!Spec_of, WebSpec
<1>4. Shop!DoneIsServed'
  <2>1. up["web"] # Null => up["web"].spec = WebSpec(run.cfg)
    BY <1>2 DEF Served
  <2>2. MadeFor(run.cfg) /\ Sound(run.cfg)
    BY <1>2 DEF Fronted, Configurations
  <2>. QED BY <1>3, <2>1, <2>2 DEF Shop!DoneIsServed, MadeFor, Sound
<1>5. ShopTypes'
  BY <1>1 DEF ShopTypes, Shop!TypeOK
<1>6. Running' /\ Configurations'
  BY <1>1 DEF Running, Configurations, Sound
<1>7. Written' /\ Answered'
  BY <1>1 DEF Written, Answered
<1>8. Hashed' /\ Opened' /\ Seeded'
  BY <1>1 DEF Hashed, Opened, Seeded, Installed
<1>9. Mounted'
  BY <1>1 DEF Mounted, Installed
<1>10. Fronted'
  BY <1>1 DEF Fronted, MadeFor, Installed
<1>11. Served' /\ Shop!NeverLocked'
  BY <1>1, <1>2 DEF Served, Shop!NeverLocked
<1>. QED BY <1>4, <1>5, <1>6, <1>7, <1>8, <1>9, <1>10, <1>11

LEMMA ForgetKeeps ==
  ASSUME ShopInv, Shop!Forget
  PROVE  ShopInv'
<1>1. /\ run.pc = "forget" /\ Shop!End("done") /\ answers' = Null
      /\ UNCHANGED <<env, profiles, image, volume, up, asked, halved, fresh, runs, stops>>
  BY DEF Shop!Forget, Shop!At, Shop!docker, Shop!counts
<1>2. env = [run.cfg EXCEPT !.state = "installed"] /\ run.cfg \in Shop!Configs
  BY <1>1 DEF ShopInv, Written, ShopTypes, Shop!TypeOK
<1>3. /\ env \in Shop!Configs /\ env.address = run.cfg.address /\ env.pw = run.cfg.pw /\ env.hash = run.cfg.hash
      /\ env.extras = run.cfg.extras /\ env.upload = run.cfg.upload
  BY <1>2 DEF Shop!Configs
<1>. QED BY <1>1, <1>3, DoneKeeps

LEMMA HealthKeeps ==
  ASSUME ShopInv, Shop!wait_healthy
  PROVE  ShopInv'
<1>. USE DEF ShopInv, Shop!Installing, Shop!Kinds, MenuKinds, Builds, Checked
<1>1. /\ run.pc = "health" /\ run.pc # "idle"
      /\ UNCHANGED <<env, answers, caddyfile, profiles, image, volume, up, asked, halved, fresh, runs, stops>>
  BY DEF Shop!wait_healthy, Shop!At, Shop!disk, Shop!docker, Shop!counts
<1>2. said = "" /\ env = run.cfg /\ run.cfg \in Shop!Configs
  BY <1>1, UnderWay DEF Written, Ahead, ShopTypes, Shop!TypeOK
<1>3. CASE Shop!End("did not come up")
  <2>1. /\ DOMAIN up' = Shop!Services /\ \A s \in Shop!Services : up'[s] = up[s]
        /\ up'["postgres"] = Null \/ DOMAIN up'["postgres"] = {"spec", "reads", "edge"}
        /\ stops' \in Nat
        /\ (~halved' => ~halved /\ run.pc # "mv" /\ ~(run.kind = "printer" /\ run.pc = "write"))
    BY <1>1 DEF ShopTypes, Shop!TypeOK, Shop!Services
  <2>. QED BY <1>1, <1>3, <2>1, EndKeeps
<1>4. CASE Shop!End("done")
  BY <1>1, <1>2, <1>4, DoneKeeps
<1>5. CASE run.kind \in Shop!Installing /\ Shop!Goto("seed") /\ UNCHANGED said
  <2>1. /\ run' = [pc |-> "seed", kind |-> run.kind, cfg |-> run.cfg, ans |-> run.ans]
        /\ run'.pc = "seed" /\ run'.kind = run.kind /\ run'.cfg = run.cfg /\ run'.ans = run.ans
    BY <1>1, <1>5, RunMoves
  <2>2. ShopTypes'
    BY <1>1, <1>2, <1>5, <2>1 DEF ShopTypes, Shop!TypeOK
  <2>3. Running' /\ Configurations'
    BY <1>1, <1>2, <1>5, <2>1 DEF Running, OnPath, Configurations, Sound
  <2>4. Written' /\ Answered'
    BY <1>1, <1>2, <1>5, <2>1 DEF Written, Ahead, Installed, Answered
  <2>5. Hashed' /\ Opened' /\ Seeded'
    BY <1>1, <1>2, <1>5, <2>1 DEF Hashed, Opened, Seeded, Written, Installed
  <2>6. Mounted'
    BY <1>1, <1>2, <1>5, <2>1 DEF Mounted, Written, Installed
  <2>7. Fronted'
    BY <1>1, <1>2, <1>5, <2>1 DEF Fronted, MadeFor, Written, Installed
  <2>8. Served' /\ Shop!NeverLocked' /\ Shop!DoneIsServed'
    BY <1>1, <1>2, <1>5, <2>1 DEF Served, WebSpec, Shop!NeverLocked, Shop!DoneIsServed, Shop!At
  <2>. QED BY <2>2, <2>3, <2>4, <2>5, <2>6, <2>7, <2>8
<1>. QED BY <1>3, <1>4, <1>5 DEF Shop!wait_healthy, Shop!Kind

\* The shop is saved first, into tables that are there.
LEMMA SeedShopKeeps ==
  ASSUME ShopInv, Shop!seed_shop_settings
  PROVE  ShopInv'
<1>. USE DEF ShopInv, Shop!Installing, Shop!Kinds, MenuKinds, Builds, Checked
<1>1. /\ run.pc = "seed" /\ run.pc # "idle"
      /\ UNCHANGED <<env, answers, caddyfile, profiles, image, up, asked, halved, fresh, runs, stops>>
  BY DEF Shop!seed_shop_settings, Shop!At, Shop!disk, Shop!counts
<1>2. run.kind \in {"fresh", "resume", "settings"} /\ said = "" /\ run.ans.shop \in Shops
  BY <1>1, UnderWay DEF OnPath, Answered
<1>3. CASE Shop!End("saving the shop settings failed") /\ (volume' = volume \/ volume' = Shop!NewVolume(FALSE))
  <2>1. /\ DOMAIN up' = Shop!Services /\ \A s \in Shop!Services : up'[s] = up[s]
        /\ up'["postgres"] = Null \/ DOMAIN up'["postgres"] = {"spec", "reads", "edge"}
        /\ stops' \in Nat
        /\ (~halved' => ~halved /\ run.pc # "mv" /\ ~(run.kind = "printer" /\ run.pc = "write"))
    BY <1>1 DEF ShopTypes, Shop!TypeOK, Shop!Services
  <2>. QED BY <1>1, <1>3, <2>1, EndKeeps
<1>4. CASE volume # Null /\ volume' = [volume EXCEPT !.shop = run.ans.shop] /\ Shop!Goto("rates") /\ UNCHANGED said
  <2>1. /\ run' = [pc |-> "rates", kind |-> run.kind, cfg |-> run.cfg, ans |-> run.ans]
        /\ run'.pc = "rates" /\ run'.kind = run.kind /\ run'.cfg = run.cfg /\ run'.ans = run.ans
    BY <1>1, <1>4, RunMoves
  <2>2. /\ volume \in Shop!Volumes /\ volume' \in Shop!Volumes /\ volume'.shop = run.ans.shop /\ volume'.pw = volume.pw
        /\ volume'.rates = volume.rates /\ volume'.born = volume.born /\ volume' # Null /\ run.ans.shop # Null
    BY <1>2, <1>4, ShopAssumption DEF ShopTypes, Shop!TypeOK, Shop!Volumes
  <2>3. ShopTypes'
    BY <1>1, <1>2, <1>4, <2>1, <2>2 DEF ShopTypes, Shop!TypeOK
  <2>4. Running' /\ Configurations'
    BY <1>1, <1>2, <1>4, <2>1, <2>2, ZenonT(40) DEF Running, OnPath, Configurations, Sound
  <2>5. Written' /\ Answered'
    BY <1>1, <1>2, <1>4, <2>1, <2>2 DEF Written, Ahead, Installed, Answered
  <2>6. Hashed' /\ Opened' /\ Seeded'
    BY <1>1, <1>2, <1>4, <2>1, <2>2 DEF Hashed, Opened, Seeded, Written, Installed
  <2>7. Mounted'
    BY <1>1, <1>2, <1>4, <2>1, <2>2 DEF Mounted, Written, Installed
  <2>8. Fronted'
    BY <1>1, <1>2, <1>4, <2>1, <2>2 DEF Fronted, MadeFor, Written, Installed
  <2>9. Served' /\ Shop!NeverLocked' /\ Shop!DoneIsServed'
    BY <1>1, <1>2, <1>4, <2>1, <2>2 DEF Served, WebSpec, Shop!NeverLocked, Shop!DoneIsServed, Shop!At
  <2>. QED BY <2>3, <2>4, <2>5, <2>6, <2>7, <2>8, <2>9
<1>. QED BY <1>3, <1>4 DEF Shop!seed_shop_settings

LEMMA SeedRatesKeeps ==
  ASSUME ShopInv, Shop!seed_rates
  PROVE  ShopInv'
<1>. USE DEF ShopInv, Shop!Installing, Shop!Kinds, MenuKinds, Builds, Checked
<1>1. /\ run.pc = "rates" /\ run.pc # "idle" /\ volume' = [volume EXCEPT !.rates = run.ans.rates]
      /\ UNCHANGED <<env, answers, caddyfile, profiles, image, up, asked, halved, fresh, runs, stops>>
  BY DEF Shop!seed_rates, Shop!At, Shop!disk, Shop!counts
<1>2. run.kind \in {"fresh", "resume", "settings"} /\ said = "" /\ run.ans.shop \in Shops /\ run.ans.rates \in SeededRates
  BY <1>1, UnderWay DEF OnPath, Answered
<1>3. /\ volume \in Shop!Volumes /\ volume' \in Shop!Volumes /\ volume'.shop = run.ans.shop /\ volume'.pw = volume.pw
      /\ volume'.rates = run.ans.rates /\ volume'.born = volume.born /\ volume # Null /\ volume' # Null
      /\ run.ans.shop # Null /\ run.ans.rates # Null
  BY <1>1, <1>2, ShopAssumption DEF Seeded, Shop!Volumes
<1>4. CASE Shop!End("saved")
  <2>1. /\ run' = Shop!Quiet /\ said' = "saved"
        /\ run'.pc = "idle" /\ run'.kind = Null /\ Null \notin Shop!Kinds
    BY <1>4, ShopAssumption DEF Shop!End, Shop!Quiet
  <2>2. ShopTypes'
    BY <1>1, <1>3, <2>1 DEF ShopTypes, Shop!TypeOK
  <2>3. Running' /\ Configurations'
    BY <1>1, <1>3, <2>1 DEF Running, OnPath, Configurations, Sound
  <2>4. Written' /\ Answered'
    BY <1>1, <1>3, <2>1 DEF Written, Ahead, Installed, Answered
  <2>5. Hashed' /\ Opened' /\ Seeded'
    BY <1>1, <1>3, <2>1 DEF Hashed, Opened, Seeded, Written, Installed
  <2>6. Mounted'
    BY <1>1, <1>3, <2>1 DEF Mounted, Written, Installed
  <2>7. Fronted'
    BY <1>1, <1>3, <2>1 DEF Fronted, MadeFor, Written, Installed
  <2>8. Served' /\ Shop!NeverLocked' /\ Shop!DoneIsServed'
    BY <1>1, <1>3, <2>1 DEF Served, WebSpec, Shop!NeverLocked, Shop!DoneIsServed, Shop!At
  <2>. QED BY <2>2, <2>3, <2>4, <2>5, <2>6, <2>7, <2>8
<1>5. CASE run.kind # "settings" /\ Shop!Goto("installed") /\ UNCHANGED said
  <2>1. /\ run' = [pc |-> "installed", kind |-> run.kind, cfg |-> run.cfg, ans |-> run.ans]
        /\ run'.pc = "installed" /\ run'.kind = run.kind /\ run'.cfg = run.cfg /\ run'.ans = run.ans
    BY <1>1, <1>5, RunMoves
  <2>2. ShopTypes'
    BY <1>1, <1>2, <1>3, <1>5, <2>1 DEF ShopTypes, Shop!TypeOK
  <2>3. Running' /\ Configurations'
    BY <1>1, <1>2, <1>3, <1>5, <2>1 DEF Running, OnPath, Configurations, Sound
  <2>4. Written' /\ Answered'
    BY <1>1, <1>2, <1>3, <1>5, <2>1 DEF Written, Ahead, Installed, Answered
  <2>5. Hashed' /\ Opened' /\ Seeded'
    BY <1>1, <1>2, <1>3, <1>5, <2>1 DEF Hashed, Opened, Seeded, Written, Installed
  <2>6. Mounted'
    BY <1>1, <1>2, <1>3, <1>5, <2>1 DEF Mounted, Written, Installed
  <2>7. Fronted'
    BY <1>1, <1>2, <1>3, <1>5, <2>1 DEF Fronted, MadeFor, Written, Installed
  <2>8. Served' /\ Shop!NeverLocked' /\ Shop!DoneIsServed'
    BY <1>1, <1>2, <1>3, <1>5, <2>1 DEF Served, WebSpec, Shop!NeverLocked, Shop!DoneIsServed, Shop!At
  <2>. QED BY <2>2, <2>3, <2>4, <2>5, <2>6, <2>7, <2>8
<1>. QED BY <1>4, <1>5 DEF Shop!seed_rates, Shop!Kind

\* What Compose leaves of each service.
LEMMA Composed ==
  ASSUME ShopTypes, NEW these \in SUBSET Shop!Services, NEW forced, NEW cfg, Shop!dc_up(these, forced, cfg)
  PROVE  /\ DOMAIN up' = Shop!Services
         /\ \A s \in Shop!Services \ these : up'[s] = up[s]
         /\ \A s \in Shop!Services : up'[s] = Null \/ DOMAIN up'[s] = {"spec", "reads", "edge"}
         /\ "web" \in these => up'["web"].spec = WebSpec(cfg)
         /\ "caddy" \in these =>
              \/ up'["caddy"] = Null
              \/ /\ cfg.address.mode # "proxy" /\ up'["caddy"].spec[3] = cfg.edge /\ up'["caddy"].edge = cfg.edge
                 /\ up'["caddy"].reads = caddyfile
              \/ up'["caddy"] = up["caddy"] /\ up["caddy"].spec[3] = cfg.edge
<1> DEFINE made(s) == [spec |-> Shop!Spec_of(s, cfg), reads |-> Shop!Reads(s), edge |-> cfg.edge]
<1>1. /\ DOMAIN up' = Shop!Services
      /\ \A s \in Shop!Services : s \notin these => up'[s] = up[s]
      /\ \A s \in Shop!Services : \/ s = "caddy" /\ up'[s] = Null
                                  \/ /\ s # "caddy" \/ cfg.address.mode # "proxy"
                                     /\ up'[s] = made(s)
                                  \/ up'[s] = up[s] /\ (s \in these => up[s].spec = Shop!Spec_of(s, cfg))
  BY DEF Shop!dc_up
<1>2. Shop!Spec_of("web", cfg) = WebSpec(cfg) /\ Shop!Spec_of("caddy", cfg)[3] = cfg.edge /\ Shop!Reads("caddy") = caddyfile
  BY DEF Shop!Spec_of, WebSpec, Shop!Reads
<1>3. \A s : /\ made(s).spec = Shop!Spec_of(s, cfg) /\ made(s).reads = Shop!Reads(s) /\ made(s).edge = cfg.edge
            /\ DOMAIN made(s) = {"spec", "reads", "edge"}
  OBVIOUS
<1>4. {"web", "caddy"} \subseteq Shop!Services
  BY DEF Shop!Services
<1>. HIDE DEF made
<1>5. \A s \in Shop!Services : up'[s] = Null \/ DOMAIN up'[s] = {"spec", "reads", "edge"}
  BY <1>1, <1>3 DEF ShopTypes, Shop!TypeOK
<1>6. "web" \in these => up'["web"].spec = WebSpec(cfg)
  BY <1>1, <1>2, <1>3, <1>4
<1>7. "caddy" \in these =>
        \/ up'["caddy"] = Null
        \/ /\ cfg.address.mode # "proxy" /\ up'["caddy"].spec[3] = cfg.edge /\ up'["caddy"].edge = cfg.edge
           /\ up'["caddy"].reads = caddyfile
        \/ up'["caddy"] = up["caddy"] /\ up["caddy"].spec[3] = cfg.edge
  BY <1>1, <1>2, <1>3, <1>4
<1>. QED BY <1>1, <1>5, <1>6, <1>7

\* No run comes to a database that its password does not open; the web starts with a hash.
LEMMA StartKeeps ==
  ASSUME ShopInv, Shop!start_stack
  PROVE  ShopInv'
<1>. USE DEF ShopInv, Shop!Installing, Shop!Kinds, MenuKinds, Builds, Checked
<1>1. /\ run.pc \in {"up", "recreate"} /\ run.pc # "idle"
      /\ UNCHANGED <<env, answers, caddyfile, profiles, image, asked, halved, fresh, runs, stops>>
  BY DEF Shop!start_stack, Shop!At, Shop!disk, Shop!counts
<1>2. /\ run.kind \in Shop!Kinds /\ run.kind # "settings" /\ said = "" /\ env = run.cfg /\ run.cfg \in Shop!Configs
      /\ run.cfg.hash # Shop!Pending
      /\ run.pc = "recreate" => run.kind \in {"password", "extras", "printer"}
      /\ run.pc = "up" => run.kind \notin {"password", "extras", "printer"}
  BY <1>1, UnderWay DEF OnPath, Written, Ahead, ShopTypes, Shop!TypeOK, Hashed
<1>3. ~Shop!Locked
  BY <1>1, <1>2 DEF Opened, Written, Shop!Locked
<1>4. Shop!Migrate /\ Shop!Starting /\ Shop!Goto("health") /\ UNCHANGED said
  BY <1>3 DEF Shop!start_stack
<1>5. /\ run' = [pc |-> "health", kind |-> run.kind, cfg |-> run.cfg, ans |-> run.ans]
      /\ run'.pc = "health" /\ run'.kind = run.kind /\ run'.cfg = run.cfg /\ run'.ans = run.ans
  BY <1>1, <1>4, RunMoves
<1>6. /\ volume' \in Shop!Volumes /\ volume'.pw = run.cfg.pw
      /\ \/ volume = Null /\ volume'.born = run.kind
         \/ /\ volume \in Shop!Volumes /\ volume # Null /\ volume'.shop = volume.shop
            /\ volume'.rates = volume.rates /\ volume'.born = volume.born
  <2>1. CASE volume = Null
    BY <1>2, <1>4, <2>1 DEF Shop!Migrate, Shop!NewVolume, Shop!Volumes, Shop!Configs
  <2>2. CASE volume # Null
    <3>1. volume \in Shop!Volumes /\ volume.pw = run.cfg.pw
      BY <1>3, <2>2 DEF ShopTypes, Shop!TypeOK, Shop!Locked
    <3>. QED BY <1>4, <2>2, <3>1 DEF Shop!Migrate, Shop!Volumes
  <2>. QED BY <2>1, <2>2
<1>7. /\ DOMAIN up' = Shop!Services
      /\ \A s \in Shop!Services : up'[s] = Null \/ DOMAIN up'[s] = {"spec", "reads", "edge"}
      /\ up'["web"].spec = WebSpec(run.cfg)
      /\ run.pc = "recreate" => up'["caddy"] = up["caddy"]
      /\ run.pc = "up" =>
           \/ up'["caddy"] = Null
           \/ /\ run.cfg.address.mode # "proxy" /\ up'["caddy"].spec[3] = run.cfg.edge /\ up'["caddy"].edge = run.cfg.edge
              /\ up'["caddy"].reads = caddyfile
           \/ up'["caddy"] = up["caddy"] /\ up["caddy"].spec[3] = run.cfg.edge
  <2>1. /\ Shop!Recreated \cup {"postgres"} \in SUBSET Shop!Services /\ "web" \in Shop!Recreated
        /\ "caddy" \in Shop!Services \ (Shop!Recreated \cup {"postgres"}) /\ {"web", "caddy"} \subseteq Shop!Services
    BY DEF Shop!Recreated, Shop!Services
  <2>2. CASE run.pc = "up"
    <3>1. Shop!dc_up(Shop!Services, {}, run.cfg)
      BY <1>4, <2>2 DEF Shop!Starting, Shop!At
    <3>. QED BY <2>1, <2>2, <3>1, Composed
  <2>3. CASE run.pc = "recreate"
    <3>1. Shop!dc_up(Shop!Recreated \cup {"postgres"}, Shop!Recreated, run.cfg)
      BY <1>4, <2>3 DEF Shop!Starting, Shop!At
    <3>. QED BY <2>1, <2>3, <3>1, Composed
  <2>. QED BY <1>1, <2>2, <2>3
<1>8. up'["caddy"] # Null =>
        /\ up'["caddy"].edge \in 1..2 /\ up'["caddy"].spec[3] = up'["caddy"].edge
        /\ up'["caddy"].reads.mode = run.cfg.address.mode /\ up'["caddy"].reads.upload = run.cfg.upload
  <2>. SUFFICES ASSUME up'["caddy"] # Null
                PROVE  /\ up'["caddy"].edge \in 1..2 /\ up'["caddy"].spec[3] = up'["caddy"].edge
                       /\ up'["caddy"].reads.mode = run.cfg.address.mode /\ up'["caddy"].reads.upload = run.cfg.upload
    OBVIOUS
  <2>1. CASE run.pc = "recreate"
    BY <1>2, <1>7, <2>1 DEF Fronted, MadeFor
  <2>2. CASE /\ run.pc = "up" /\ run.cfg.address.mode # "proxy" /\ up'["caddy"].spec[3] = run.cfg.edge
             /\ up'["caddy"].edge = run.cfg.edge /\ up'["caddy"].reads = caddyfile
    <3>1. run.cfg.edge \in 1..2
      BY <1>1, <1>2, <2>2 DEF Configurations, Sound, Shop!Configs
    <3>2. caddyfile = Shop!render(run.cfg)
      BY <1>1, <1>2, <2>2 DEF Fronted
    <3>. QED BY <2>2, <3>1, <3>2 DEF Shop!render
  <2>3. CASE run.pc = "up" /\ up'["caddy"] = up["caddy"] /\ up["caddy"].spec[3] = run.cfg.edge
    BY <1>1, <2>3 DEF Fronted, MadeFor
  <2>. QED BY <1>1, <1>7, <2>1, <2>2, <2>3
<1>9. ShopTypes'
  BY <1>1, <1>2, <1>4, <1>5, <1>6, <1>7, <1>8 DEF ShopTypes, Shop!TypeOK
<1>10. Running' /\ Configurations'
  BY <1>1, <1>2, <1>4, <1>5, <1>6, <1>7, <1>8, ZenonT(40) DEF Running, OnPath, Configurations, Sound
<1>11. Written' /\ Answered'
  BY <1>1, <1>2, <1>4, <1>5, <1>6, <1>7, <1>8 DEF Written, Ahead, Installed, Answered
<1>12. Hashed' /\ Opened' /\ Seeded'
  BY <1>1, <1>2, <1>4, <1>5, <1>6, <1>7, <1>8 DEF Hashed, Opened, Seeded, Written, Installed
<1>13. Mounted'
  BY <1>1, <1>2, <1>4, <1>5, <1>6, <1>7, <1>8 DEF Mounted, Written, Installed
<1>14. Fronted'
  BY <1>1, <1>2, <1>4, <1>5, <1>6, <1>7, <1>8 DEF Fronted, MadeFor, Written, Installed
<1>15. Served' /\ Shop!NeverLocked' /\ Shop!DoneIsServed'
  <2>1. up'["web"].spec[4] = run.cfg.hash
    BY <1>7 DEF WebSpec
  <2>2. (up["web"].spec = WebSpec(run.cfg))'
    BY <1>1, <1>5, <1>7 DEF WebSpec
  <2>. QED BY <1>2, <1>4, <1>5, <2>1, <2>2 DEF Served, Shop!NeverLocked, Shop!DoneIsServed, Shop!At
<1>. QED BY <1>9, <1>10, <1>11, <1>12, <1>13, <1>14, <1>15

\* The database that is there opens, is made to, or is deleted; or the owner quits.
LEMMA ReconcileKeeps ==
  ASSUME ShopInv, Shop!reconcile_database
  PROVE  ShopInv'
<1>. USE DEF ShopInv, Shop!Installing, Shop!Kinds, MenuKinds, Builds, Checked
<1>1. /\ run.pc = "reconcile" /\ run.pc # "idle"
      /\ UNCHANGED <<env, answers, caddyfile, profiles, image, asked, halved, fresh, runs, stops>>
  BY DEF Shop!reconcile_database, Shop!At, Shop!disk, Shop!counts
<1>2. run.kind \in {"fresh", "resume"} /\ said = "" /\ env = run.cfg /\ run.cfg \in Shop!Configs
      /\ run.cfg.state = "configured"
  BY <1>1, UnderWay DEF OnPath, Written, Ahead, ShopTypes, Shop!TypeOK
<1>3. ASSUME Shop!dc_up({"postgres"}, {}, run.cfg)
      PROVE  /\ DOMAIN up' = Shop!Services /\ \A s \in Shop!Services \ {"postgres"} : up'[s] = up[s]
             /\ \A s \in Shop!Services : up'[s] = Null \/ DOMAIN up'[s] = {"spec", "reads", "edge"}
  <2>1. {"postgres"} \in SUBSET Shop!Services
    BY DEF Shop!Services
  <2>. QED BY <1>3, <2>1, Composed
<1>4. CASE Shop!End("nothing was changed") /\ Shop!dc_up({"postgres"}, {}, run.cfg) /\ UNCHANGED volume
  <2>1. /\ (~halved' => ~halved /\ run.pc # "mv" /\ ~(run.kind = "printer" /\ run.pc = "write"))
        /\ stops' \in Nat /\ "postgres" \in Shop!Services
    BY <1>1 DEF ShopTypes, Shop!Services
  <2>. QED BY <1>1, <1>3, <1>4, <2>1, EndKeeps
<1>5. CASE /\ Shop!Goto("build") /\ UNCHANGED said
           /\ volume' = Null \/ (volume' \in Shop!Volumes /\ volume'.pw = run.cfg.pw)
           /\ DOMAIN up' = Shop!Services
           /\ \A s \in Shop!Services : up'[s] = Null \/ DOMAIN up'[s] = {"spec", "reads", "edge"}
           /\ \A s \in {"web", "caddy"} : up'[s] = Null \/ up'[s] = up[s]
  <2>1. /\ run' = [pc |-> "build", kind |-> run.kind, cfg |-> run.cfg, ans |-> run.ans]
        /\ run'.pc = "build" /\ run'.kind = run.kind /\ run'.cfg = run.cfg /\ run'.ans = run.ans
    BY <1>1, <1>5, RunMoves
  <2>2. (up'["web"] = Null \/ up'["web"] = up["web"]) /\ (up'["caddy"] = Null \/ up'["caddy"] = up["caddy"])
    BY <1>5
  <2>3. ShopTypes'
    BY <1>1, <1>2, <1>5, <2>1, <2>2 DEF ShopTypes, Shop!TypeOK
  <2>4. Running' /\ Configurations'
    BY <1>1, <1>2, <1>5, <2>1, <2>2 DEF Running, OnPath, Configurations, Sound
  <2>5. Written' /\ Answered'
    BY <1>1, <1>2, <1>5, <2>1, <2>2 DEF Written, Ahead, Installed, Answered
  <2>6. Hashed' /\ Opened' /\ Seeded'
    BY <1>1, <1>2, <1>5, <2>1, <2>2 DEF Hashed, Opened, Seeded, Written, Installed
  <2>7. Mounted'
    BY <1>1, <1>2, <1>5, <2>1, <2>2 DEF Mounted, Written, Installed
  <2>8. Fronted'
    BY <1>1, <1>2, <1>5, <2>1, <2>2 DEF Fronted, MadeFor, Written, Installed
  <2>9. Served' /\ Shop!NeverLocked' /\ Shop!DoneIsServed'
    BY <1>1, <1>2, <1>5, <2>1, <2>2 DEF Served, WebSpec, Shop!NeverLocked, Shop!DoneIsServed, Shop!At
  <2>. QED BY <2>3, <2>4, <2>5, <2>6, <2>7, <2>8, <2>9
<1>6. "web" \in Shop!Services \ {"postgres"} /\ "caddy" \in Shop!Services \ {"postgres"}
  BY DEF Shop!Services
<1>7. CASE volume = Null /\ Shop!Goto("build") /\ UNCHANGED <<volume, up, said>>
  BY <1>5, <1>7 DEF ShopTypes, Shop!TypeOK
<1>8. CASE /\ volume # Null /\ volume.pw = run.cfg.pw /\ Shop!Goto("build")
           /\ Shop!dc_up({"postgres"}, {}, run.cfg) /\ UNCHANGED <<volume, said>>
  BY <1>3, <1>5, <1>6, <1>8 DEF ShopTypes, Shop!TypeOK
<1>9. CASE /\ volume # Null /\ volume' = Shop!Reconciled(volume) /\ Shop!Goto("build")
           /\ Shop!dc_up({"postgres"}, {}, run.cfg) /\ UNCHANGED said
  <2>1. volume' \in Shop!Volumes /\ volume'.pw = run.cfg.pw
    BY <1>2, <1>9, ZenonT(40) DEF ShopTypes, Shop!TypeOK, Shop!Reconciled, Shop!Volumes, Shop!Configs
  <2>. QED BY <1>3, <1>5, <1>6, <1>9, <2>1
<1>10. CASE volume' = Null /\ up' = Shop!Down /\ Shop!Goto("build") /\ UNCHANGED said
  <2>1. DOMAIN up' = Shop!Services /\ \A s \in Shop!Services : up'[s] = Null
    BY <1>10 DEF Shop!Down
  <2>. QED BY <1>5, <1>6, <1>10, <2>1
<1>. QED BY <1>4, <1>7, <1>8, <1>9, <1>10 DEF Shop!reconcile_database

\* The edge network of a new configuration is not that of a Caddy that runs.
LEMMA SubnetPicked ==
  ASSUME Fronted
  PROVE  Shop!pick_subnet \in 1..2 /\ (up["caddy"] # Null => up["caddy"].edge # Shop!pick_subnet)
<1>1. \E n \in 1..2 : up["caddy"] = Null \/ up["caddy"].edge # n
  <2>1. CASE up["caddy"].edge = 1
    BY <2>1
  <2>2. CASE up["caddy"].edge # 1
    BY <2>2
  <2>. QED BY <2>1, <2>2
<1>. QED BY <1>1 DEF Shop!pick_subnet

LEMMA ConfigureEnv ==
  ASSUME Fronted, NEW a \in Shop!sec_address,
         NEW cfg \in [state : {"configured", "installed"}, address : Shop!sec_address \cup {Null}, edge : {Null} \cup 1..2,
                      upload : {95, 300}, pw : Nat, hash : Passwords \cup {Shop!Pending}, printer : Printers, extras : Extras]
  PROVE  LET c == Shop!configure_env(cfg, a)
         IN /\ c \in Shop!Configs /\ Sound(c) /\ c.address = a
            /\ c.state = cfg.state /\ c.pw = cfg.pw /\ c.hash = cfg.hash /\ c.printer = cfg.printer
            /\ c.edge = Null \/ (cfg.edge # Null /\ c.edge = cfg.edge) \/ (up["caddy"] # Null => up["caddy"].edge # c.edge)
            /\ cfg.upload # 95 \/ Shop!Capped(a.mode) => (c.upload = 95 <=> Shop!Capped(a.mode))
<1> DEFINE c == Shop!configure_env(cfg, a)
           edge == IF a.mode = "proxy" THEN Null ELSE IF cfg.edge # Null THEN cfg.edge ELSE Shop!pick_subnet
           upload == IF Shop!Capped(a.mode) THEN 95 ELSE IF cfg.upload = 95 THEN 300 ELSE cfg.upload
<1>1. c = [cfg EXCEPT !.address = a, !.edge = edge, !.upload = upload]
  BY DEF Shop!configure_env
<1>2. edge \in {Null} \cup 1..2 /\ (edge = Null <=> a.mode = "proxy")
  BY SubnetPicked, ShopAssumption
<1>3. edge = Null \/ (cfg.edge # Null /\ edge = cfg.edge) \/ (up["caddy"] # Null => up["caddy"].edge # edge)
  BY SubnetPicked
<1>4. upload \in {95, 300} /\ (Shop!Capped(a.mode) <=> upload = 95)
  OBVIOUS
<1>. HIDE DEF edge, upload, c
<1>5. c = [state |-> cfg.state, address |-> a, edge |-> edge, upload |-> upload, pw |-> cfg.pw, hash |-> cfg.hash,
           printer |-> cfg.printer, extras |-> cfg.extras]
  BY <1>1
<1>6. c \in Shop!Configs
  BY <1>2, <1>4, <1>5 DEF Shop!Configs
<1>7. /\ c.address = a /\ c.state = cfg.state /\ c.pw = cfg.pw /\ c.hash = cfg.hash /\ c.printer = cfg.printer
      /\ c.edge = edge /\ c.upload = upload
  BY <1>5
<1>8. Sound(c)
  BY <1>2, <1>4, <1>7 DEF Sound
<1>. QED BY <1>3, <1>4, <1>6, <1>7, <1>8 DEF c

LEMMA BeginIs ==
  ASSUME NEW kind \in Shop!Kinds, NEW pc, pc # "idle", NEW cfg, NEW ans, Shop!Begin(kind, pc, cfg, ans)
  PROVE  /\ run' = [pc |-> pc, kind |-> kind, cfg |-> cfg, ans |-> ans]
         /\ run'.pc = pc /\ run'.kind = kind /\ run'.cfg = cfg /\ run'.ans = ans
         /\ said' = "" /\ runs' = runs + 1
  BY DEF Shop!Begin

\* A first run writes what the owner answers.
LEMMA WizardKeeps ==
  ASSUME ShopInv, Shop!Wizard
  PROVE  ShopInv'
<1>. USE DEF ShopInv, Shop!Installing, Shop!Kinds, MenuKinds, Builds, Checked
<1>1. /\ run.pc = "idle" /\ env = Null /\ fresh' = fresh + 1
      /\ UNCHANGED <<env, answers, caddyfile, profiles, image, volume, up, halved, stops>>
  BY DEF Shop!Wizard, Shop!At, Shop!disk, Shop!docker
<1>2. PICK ans \in Shop!Answers : Shop!Begin("fresh", "write", Shop!Configured(ans), ans) /\ asked' = Shop!Shop(ans)
  BY DEF Shop!Wizard
<1>3. /\ ans.shop \in Shops /\ ans.rates \in SeededRates /\ ans.address \in Shop!sec_address /\ ans.printer \in Printers
      /\ ans.password \in Passwords /\ ans.extras \in Extras
  BY DEF Shop!Answers, Shop!sec_shop, Shop!sec_materials, Shop!pick_listed_printer, Shop!sec_admin, Shop!sec_integrations
<1> DEFINE first == [state |-> "configured", address |-> Null, edge |-> Null, upload |-> 300, pw |-> fresh + 1,
                     hash |-> Shop!Pending, printer |-> ans.printer, extras |-> ans.extras]
           c == Shop!configure_env(first, ans.address)
<1>4. first \in [state : {"configured", "installed"}, address : Shop!sec_address \cup {Null}, edge : {Null} \cup 1..2,
                upload : {95, 300}, pw : Nat, hash : Passwords \cup {Shop!Pending}, printer : Printers, extras : Extras]
  <2>1. fresh + 1 \in Nat
    BY DEF ShopTypes
  <2>. QED BY <1>3, <2>1
<1>5. first.state = "configured" /\ first.edge = Null
  OBVIOUS
<1>6. Shop!Configured(ans) = c
  BY DEF Shop!Configured, Shop!generate_secrets
<1>. HIDE DEF first
<1>7. /\ c \in Shop!Configs /\ Sound(c) /\ c.state = "configured"
      /\ c.edge = Null \/ (up["caddy"] # Null => up["caddy"].edge # c.edge)
  BY <1>3, <1>4, <1>5, ConfigureEnv
<1>. HIDE DEF c
<1>8. /\ run' = [pc |-> "write", kind |-> "fresh", cfg |-> c, ans |-> ans]
      /\ run'.pc = "write" /\ run'.kind = "fresh" /\ run'.cfg = c /\ run'.ans = ans
      /\ said' = "" /\ runs' = runs + 1
  BY <1>2, <1>6, BeginIs
<1>9. asked'.shop = ans.shop /\ asked'.rates = ans.rates /\ ans.password # Null
  BY <1>2, <1>3, ShopAssumption DEF Shop!Shop
<1>10. up["caddy"] # Null => up["caddy"].edge # c.edge
  BY <1>7, ShopAssumption DEF Fronted
<1>11. env \notin Shop!Configs
  BY <1>1, ShopAssumption
<1>12. fresh + 1 \in Nat /\ runs + 1 \in Nat
  BY DEF ShopTypes
<1>13. ShopTypes'
  BY <1>1, <1>7, <1>8, <1>12 DEF ShopTypes, Shop!TypeOK
<1>14. Running' /\ Configurations'
  BY <1>1, <1>3, <1>7, <1>8, <1>9, <1>10, <1>11 DEF Running, OnPath, Configurations, Sound
<1>15. Written' /\ Answered'
  BY <1>1, <1>3, <1>7, <1>8, <1>9, <1>10, <1>11 DEF Written, Ahead, Installed, Answered
<1>16. Hashed' /\ Opened' /\ Seeded'
  BY <1>1, <1>3, <1>7, <1>8, <1>9, <1>10, <1>11 DEF Hashed, Opened, Seeded, Written, Installed
<1>17. Mounted'
  BY <1>1, <1>3, <1>7, <1>8, <1>9, <1>10, <1>11 DEF Mounted, Written, Installed
<1>18. Fronted'
  BY <1>1, <1>3, <1>7, <1>8, <1>9, <1>10, <1>11 DEF Fronted, MadeFor, Written, Installed
<1>19. Served' /\ Shop!NeverLocked' /\ Shop!DoneIsServed'
  BY <1>1, <1>3, <1>7, <1>8, <1>9, <1>10, <1>11 DEF Served, WebSpec, Shop!NeverLocked, Shop!DoneIsServed, Shop!At
<1>. QED BY <1>13, <1>14, <1>15, <1>16, <1>17, <1>18, <1>19

\* An interrupted run goes on with what was saved; what was lost is asked for again.
LEMMA ResumeKeeps ==
  ASSUME ShopInv, Shop!resume_install
  PROVE  ShopInv'
<1>. USE DEF ShopInv, Shop!Installing, Shop!Kinds, MenuKinds, Builds, Checked
<1>1. /\ run.pc = "idle" /\ env # Null /\ env.state # "installed"
      /\ UNCHANGED <<env, caddyfile, profiles, image, volume, up, halved, fresh, stops>>
  BY DEF Shop!resume_install, Shop!At, Shop!docker
<1>2. PICK again \in {Shop!Shop(a) : a \in Shop!Answers}, w \in Passwords \cup {Null} :
         /\ (w = Null) <=> (env.hash # Shop!Pending)
         /\ Shop!Begin("resume", "caddy", env, [shop |-> again.shop, rates |-> again.rates, password |-> w])
         /\ answers' = again /\ asked' = again
  BY DEF Shop!resume_install, Shop!sec_admin
<1>3. again \in [shop : Shops, rates : SeededRates]
  <2>1. PICK a \in Shop!Answers : again = Shop!Shop(a)
    OBVIOUS
  <2>2. a.shop \in Shops /\ a.rates \in SeededRates
    BY DEF Shop!Answers, Shop!sec_shop, Shop!sec_materials
  <2>. QED BY <2>1, <2>2 DEF Shop!Shop
<1> DEFINE ans == [shop |-> again.shop, rates |-> again.rates, password |-> w]
<1>4. ans.shop = again.shop /\ ans.rates = again.rates /\ ans.password = w /\ again.shop \in Shops /\ again.rates \in SeededRates
  BY <1>3
<1>. HIDE DEF ans
<1>5. /\ run' = [pc |-> "caddy", kind |-> "resume", cfg |-> env, ans |-> ans]
      /\ run'.pc = "caddy" /\ run'.kind = "resume" /\ run'.cfg = env /\ run'.ans = ans
      /\ said' = "" /\ runs' = runs + 1
  BY <1>2, BeginIs DEF ans
<1>6. env \in Shop!Configs /\ env.state = "configured"
  BY <1>1 DEF ShopTypes, Shop!TypeOK, Shop!Configs
<1>7. w = Null => env.hash # Shop!Pending
  BY <1>2
<1>8. runs + 1 \in Nat
  BY DEF ShopTypes
<1>9. ShopTypes'
  BY <1>1, <1>2, <1>3, <1>5, <1>6, <1>8 DEF ShopTypes, Shop!TypeOK
<1>10. Running' /\ Configurations'
  BY <1>1, <1>2, <1>3, <1>4, <1>5, <1>6, <1>7 DEF Running, OnPath, Configurations, Sound
<1>11. Written' /\ Answered'
  BY <1>1, <1>2, <1>3, <1>4, <1>5, <1>6, <1>7 DEF Written, Ahead, Installed, Answered
<1>12. Hashed' /\ Opened' /\ Seeded'
  BY <1>1, <1>2, <1>3, <1>4, <1>5, <1>6, <1>7 DEF Hashed, Opened, Seeded, Written, Installed
<1>13. Mounted'
  BY <1>1, <1>2, <1>3, <1>4, <1>5, <1>6, <1>7 DEF Mounted, Written, Installed
<1>14. Fronted'
  BY <1>1, <1>2, <1>3, <1>4, <1>5, <1>6, <1>7 DEF Fronted, MadeFor, Written, Installed
<1>15. Served' /\ Shop!NeverLocked' /\ Shop!DoneIsServed'
  BY <1>1, <1>2, <1>3, <1>4, <1>5, <1>6, <1>7 DEF Served, WebSpec, Shop!NeverLocked, Shop!DoneIsServed, Shop!At
<1>. QED BY <1>9, <1>10, <1>11, <1>12, <1>13, <1>14, <1>15

\* What each item of the menu of an installed shop begins with.
Begins(kind, pc) ==
  \/ kind = "rebuild" /\ pc = "caddy"
  \/ kind = "address" /\ pc \in {"write", "down"}
  \/ kind = "password" /\ pc = "password"
  \/ kind = "extras" /\ pc = "write"
  \/ kind = "printer" /\ pc = "profiles"
  \/ kind = "settings" /\ pc = "seed"

\* An item of the menu keeps the invariant when it carries a sound configuration on.
LEMMA MenuKeeps ==
  ASSUME ShopInv, NEW kind, NEW pc, NEW cfg \in Shop!Configs, NEW ans, Shop!Menu(kind, pc, cfg, ans),
         Begins(kind, pc),
         cfg.state = env.state, cfg.pw = env.pw, cfg.hash = env.hash, cfg.printer = env.printer \/ kind = "printer",
         Sound(cfg), pc # "down" => MadeFor(cfg),
         kind \in {"rebuild", "password", "settings"} => cfg = env,
         kind = "settings" => /\ ans.shop \in Shops /\ ans.rates \in SeededRates
                              /\ asked'.shop = ans.shop /\ asked'.rates = ans.rates,
         kind = "password" => ans.password \in Passwords
  PROVE  ShopInv'
<1>. USE DEF ShopInv, Begins, Shop!Installing, Shop!Kinds, MenuKinds, Builds, Checked
<1>1. /\ run.pc = "idle" /\ env # Null /\ env.state = "installed" /\ Shop!Begin(kind, pc, cfg, ans)
      /\ UNCHANGED <<env, answers, caddyfile, profiles, image, volume, up, halved, fresh, stops>>
  BY DEF Shop!Menu, Shop!At, Shop!disk, Shop!docker
<1>2. kind \in Shop!Kinds /\ pc # "idle" /\ runs + 1 \in Nat
  BY DEF ShopTypes
<1>3. /\ run' = [pc |-> pc, kind |-> kind, cfg |-> cfg, ans |-> ans]
      /\ run'.pc = pc /\ run'.kind = kind /\ run'.cfg = cfg /\ run'.ans = ans
      /\ said' = "" /\ runs' = runs + 1
  BY <1>1, <1>2, BeginIs
<1>4. Installed /\ env.hash # Shop!Pending
  BY <1>1 DEF ShopTypes, Shop!TypeOK, Installed, Hashed
<1>5. ShopTypes'
  BY <1>1, <1>2, <1>3 DEF ShopTypes, Shop!TypeOK
<1>6. Running' /\ Configurations'
  BY <1>1, <1>2, <1>3, <1>4, ZenonT(40) DEF Running, OnPath, Configurations, Sound
<1>7. Written' /\ Answered'
  BY <1>1, <1>2, <1>3, <1>4 DEF Written, Ahead, Installed, Answered
<1>8. Hashed' /\ Opened' /\ Seeded'
  BY <1>1, <1>2, <1>3, <1>4 DEF Hashed, Opened, Seeded, Written, Installed
<1>9. Mounted'
  BY <1>1, <1>2, <1>3, <1>4 DEF Mounted, Written, Installed
<1>10. Fronted'
  BY <1>1, <1>2, <1>3, <1>4 DEF Fronted, MadeFor, Written, Installed
<1>11. Served' /\ Shop!NeverLocked' /\ Shop!DoneIsServed'
  BY <1>1, <1>2, <1>3, <1>4 DEF Served, WebSpec, Shop!NeverLocked, Shop!DoneIsServed, Shop!At
<1>. QED BY <1>5, <1>6, <1>7, <1>8, <1>9, <1>10, <1>11

LEMMA MenusKeep ==
  ASSUME ShopInv, \/ Shop!Rebuild \/ Shop!ChangePassword \/ Shop!ChangeExtras \/ Shop!ChangePrinter \/ Shop!StartOver
  PROVE  ShopInv'
<1>1. /\ env \in Shop!Configs /\ env.state = "installed" => Sound(env) /\ MadeFor(env)
      /\ env # Null => env \in Shop!Configs
  BY ShopAssumption DEF ShopInv, ShopTypes, Shop!TypeOK, Configurations, Fronted, Installed
<1>2. ASSUME NEW kind, NEW pc, NEW cfg, NEW ans, Shop!Menu(kind, pc, cfg, ans)
      PROVE  env \in Shop!Configs /\ Sound(env) /\ MadeFor(env)
  BY <1>1, <1>2 DEF Shop!Menu
<1>3. CASE Shop!Rebuild
  <2>1. Shop!Menu("rebuild", "caddy", env, Null)
    BY <1>3 DEF Shop!Rebuild
  <2>2. env \in Shop!Configs /\ Sound(env) /\ MadeFor(env) /\ Begins("rebuild", "caddy")
    BY <1>2, <2>1 DEF Begins
  <2>. QED BY <2>1, <2>2, MenuKeeps
<1>4. CASE Shop!ChangePassword
  <2>1. PICK w \in Passwords : Shop!Menu("password", "password", env, [password |-> w])
    BY <1>4 DEF Shop!ChangePassword, Shop!sec_admin
  <2> DEFINE ans == [password |-> w]
  <2>2. Shop!Menu("password", "password", env, ans) /\ ans.password \in Passwords
    BY <2>1
  <2>. HIDE DEF ans
  <2>3. env \in Shop!Configs /\ Sound(env) /\ MadeFor(env) /\ Begins("password", "password")
    BY <1>2, <2>1 DEF Begins
  <2>. QED BY <2>2, <2>3, MenuKeeps
<1>5. CASE Shop!ChangeExtras
  <2>1. PICK x \in Extras : Shop!Menu("extras", "write", Shop!configure_integrations(env, x), Null)
    BY <1>5 DEF Shop!ChangeExtras, Shop!sec_integrations
  <2> DEFINE c == [env EXCEPT !.extras = x]
  <2>2. env \in Shop!Configs /\ Sound(env) /\ MadeFor(env)
    BY <1>2, <2>1
  <2>3. /\ c \in Shop!Configs /\ c.state = env.state /\ c.pw = env.pw /\ c.hash = env.hash /\ c.printer = env.printer
        /\ c.address = env.address /\ c.edge = env.edge /\ c.upload = env.upload
    BY <2>2 DEF Shop!Configs
  <2>4. Shop!Menu("extras", "write", c, Null)
    BY <2>1 DEF Shop!configure_integrations
  <2>. HIDE DEF c
  <2>5. Sound(c) /\ MadeFor(c) /\ Begins("extras", "write")
    BY <2>2, <2>3 DEF Sound, MadeFor, Begins
  <2>. QED BY <2>3, <2>4, <2>5, MenuKeeps
<1>6. CASE Shop!ChangePrinter
  <2>1. PICK p \in Printers : Shop!Menu("printer", "profiles", [env EXCEPT !.printer = p], Null)
    BY <1>6 DEF Shop!ChangePrinter, Shop!pick_listed_printer
  <2> DEFINE c == [env EXCEPT !.printer = p]
  <2>2. env \in Shop!Configs /\ Sound(env) /\ MadeFor(env)
    BY <1>2, <2>1
  <2>3. /\ c \in Shop!Configs /\ c.state = env.state /\ c.pw = env.pw /\ c.hash = env.hash
        /\ c.address = env.address /\ c.edge = env.edge /\ c.upload = env.upload
    BY <2>2 DEF Shop!Configs
  <2>4. Shop!Menu("printer", "profiles", c, Null)
    BY <2>1
  <2>. HIDE DEF c
  <2>5. Sound(c) /\ MadeFor(c) /\ Begins("printer", "profiles")
    BY <2>2, <2>3 DEF Sound, MadeFor, Begins
  <2>. QED BY <2>3, <2>4, <2>5, MenuKeeps
<1>7. CASE Shop!StartOver
  <2>1. PICK s \in Shops, r \in SeededRates :
          Shop!Menu("settings", "seed", env, [shop |-> s, rates |-> r]) /\ asked' = [shop |-> s, rates |-> r]
    BY <1>7 DEF Shop!StartOver, Shop!sec_shop, Shop!sec_materials
  <2>2. [shop |-> s, rates |-> r].shop = s /\ [shop |-> s, rates |-> r].rates = r
    OBVIOUS
  <2> DEFINE ans == [shop |-> s, rates |-> r]
  <2>3. Shop!Menu("settings", "seed", env, ans) /\ ans.shop \in Shops /\ ans.rates \in SeededRates
        /\ asked'.shop = ans.shop /\ asked'.rates = ans.rates
    BY <2>1, <2>2
  <2>. HIDE DEF ans
  <2>4. env \in Shop!Configs /\ Sound(env) /\ MadeFor(env) /\ Begins("settings", "seed")
    BY <1>2, <2>1 DEF Begins
  <2>. QED BY <2>3, <2>4, MenuKeeps
<1>. QED BY <1>3, <1>4, <1>5, <1>6, <1>7

\* Another kind of address takes the containers down first.
LEMMA AddressKeeps ==
  ASSUME ShopInv, Shop!ChangeAddress
  PROVE  ShopInv'
<1>1. PICK a \in Shop!sec_address :
         Shop!Menu("address", IF a.mode = env.address.mode THEN "write" ELSE "down", Shop!configure_env(env, a), Null)
  BY DEF Shop!ChangeAddress
<1>2. env \in Shop!Configs /\ Sound(env) /\ MadeFor(env) /\ Fronted
  BY <1>1, ShopAssumption DEF Shop!Menu, ShopInv, ShopTypes, Shop!TypeOK, Configurations, Fronted, Installed
<1> DEFINE c == Shop!configure_env(env, a)
           pc == IF a.mode = env.address.mode THEN "write" ELSE "down"
<1>3. env \in [state : {"configured", "installed"}, address : Shop!sec_address \cup {Null}, edge : {Null} \cup 1..2,
              upload : {95, 300}, pw : Nat, hash : Passwords \cup {Shop!Pending}, printer : Printers, extras : Extras]
  BY <1>2 DEF Shop!Configs
<1>4. /\ c \in Shop!Configs /\ Sound(c) /\ c.address = a
      /\ c.state = env.state /\ c.pw = env.pw /\ c.hash = env.hash /\ c.printer = env.printer
  BY <1>2, <1>3, ConfigureEnv
<1>5. Shop!Menu("address", pc, c, Null)
  BY <1>1
<1>6. c.upload \in {95, 300} /\ env.upload \in {95, 300}
  BY <1>2, <1>4 DEF Shop!Configs
<1>. HIDE DEF c
<1>7. pc \in {"write", "down"} /\ (pc # "down" => a.mode = env.address.mode)
  OBVIOUS
<1>. HIDE DEF pc
<1>8. (pc # "down" => MadeFor(c)) /\ Begins("address", pc)
  BY <1>2, <1>4, <1>6, <1>7 DEF Sound, MadeFor, Begins
<1>. QED BY <1>4, <1>5, <1>7, <1>8, MenuKeeps

LEMMA AtRest == ASSUME Running, run.pc = "idle" PROVE run = Shop!Quiet /\ run.kind = Null
<1>1. run = Shop!Quiet
  BY DEF Running
<1>. QED BY <1>1 DEF Shop!Quiet

LEMMA UninstallKeeps ==
  ASSUME ShopInv, Shop!uninstall
  PROVE  ShopInv'
<1>. USE DEF ShopInv, Shop!Installing, Shop!Kinds, MenuKinds, Builds, Checked
<1>1. /\ run.pc = "idle" /\ run' = run /\ runs' = runs + 1 /\ up' = [s \in Shop!Services |-> Null]
      /\ said' = "uninstalled" /\ volume' \in {volume, Null}
      /\ UNCHANGED <<env, answers, caddyfile, profiles, image, asked, halved, fresh, stops>>
  BY DEF Shop!uninstall, Shop!At, Shop!Down, Shop!disk
<1>2. run = Shop!Quiet /\ run.kind = Null /\ Null \notin Shop!Kinds /\ up'["web"] = Null /\ up'["caddy"] = Null
  <2>1. run = Shop!Quiet /\ run.kind = Null
    BY <1>1, AtRest
  <2>2. up'["web"] = Null /\ up'["caddy"] = Null
    BY <1>1 DEF Shop!Services
  <2>. QED BY <2>1, <2>2, ShopAssumption
<1>3. ShopTypes'
  BY <1>1, <1>2 DEF ShopTypes, Shop!TypeOK
<1>4. Running' /\ Configurations'
  BY <1>1, <1>2 DEF Running, OnPath, Configurations, Sound
<1>5. Written' /\ Answered'
  BY <1>1, <1>2 DEF Written, Ahead, Installed, Answered
<1>6. Hashed' /\ Opened' /\ Seeded'
  BY <1>1, <1>2 DEF Hashed, Opened, Seeded, Written, Installed
<1>7. Mounted'
  BY <1>1, <1>2 DEF Mounted, Written, Installed
<1>8. Fronted'
  BY <1>1, <1>2 DEF Fronted, MadeFor, Written, Installed
<1>9. Served' /\ Shop!NeverLocked' /\ Shop!DoneIsServed'
  BY <1>1, <1>2 DEF Served, WebSpec, Shop!NeverLocked, Shop!DoneIsServed, Shop!At
<1>. QED BY <1>3, <1>4, <1>5, <1>6, <1>7, <1>8, <1>9

LEMMA DeleteFolderKeeps ==
  ASSUME ShopInv, Shop!DeleteFolder
  PROVE  ShopInv'
<1>. USE DEF ShopInv, Shop!Installing, Shop!Kinds, MenuKinds, Builds, Checked
<1>1. /\ run.pc = "idle" /\ run' = run /\ env' = Null /\ answers' = Null /\ profiles' = Null /\ said' = ""
      /\ UNCHANGED <<image, volume, up, asked, halved, fresh, runs, stops>>
  BY DEF Shop!DeleteFolder, Shop!At, Shop!docker, Shop!counts
<1>2. run = Shop!Quiet /\ run.kind = Null /\ Null \notin Shop!Kinds /\ env' \notin Shop!Configs
  <2>1. run = Shop!Quiet /\ run.kind = Null
    BY <1>1, AtRest
  <2>. QED BY <1>1, <2>1, ShopAssumption
<1>3. ShopTypes'
  BY <1>1, <1>2 DEF ShopTypes, Shop!TypeOK
<1>4. Running' /\ Configurations'
  BY <1>1, <1>2 DEF Running, OnPath, Configurations, Sound
<1>5. Written' /\ Answered'
  BY <1>1, <1>2 DEF Written, Ahead, Installed, Answered
<1>6. Hashed' /\ Opened' /\ Seeded'
  BY <1>1, <1>2 DEF Hashed, Opened, Seeded, Written, Installed
<1>7. Mounted'
  BY <1>1, <1>2 DEF Mounted, Written, Installed
<1>8. Fronted'
  BY <1>1, <1>2 DEF Fronted, MadeFor, Written, Installed
<1>9. Served' /\ Shop!NeverLocked' /\ Shop!DoneIsServed'
  BY <1>1, <1>2 DEF Served, WebSpec, Shop!NeverLocked, Shop!DoneIsServed, Shop!At
<1>. QED BY <1>3, <1>4, <1>5, <1>6, <1>7, <1>8, <1>9

LEMMA ShopInit == Shop!Init => ShopInv
<1>. SUFFICES ASSUME Shop!Init PROVE ShopInv
  OBVIOUS
<1>. USE DEF Shop!Init, Shop!Installing, Shop!Kinds, MenuKinds, Builds, Checked
<1>1. run = Shop!Quiet /\ run.pc = "idle" /\ run.kind = Null /\ Null \notin Shop!Kinds /\ env \notin Shop!Configs
  BY ShopAssumption DEF Shop!Quiet
<1>2. up = [s \in Shop!Services |-> Null] /\ up["web"] = Null /\ up["caddy"] = Null
  BY DEF Shop!Down, Shop!Services
<1>3. ShopTypes /\ Running /\ Configurations
  BY <1>1, <1>2 DEF ShopTypes, Shop!TypeOK, Running, Configurations
<1>4. Written /\ Answered /\ Hashed /\ Opened /\ Seeded /\ Mounted
  BY <1>1 DEF Written, Answered, Hashed, Opened, Seeded, Mounted, Installed
<1>5. Fronted /\ Served /\ Shop!NeverLocked /\ Shop!DoneIsServed
  BY <1>1, <1>2 DEF Fronted, MadeFor, Served, Installed, Shop!NeverLocked, Shop!DoneIsServed
<1>. QED BY <1>3, <1>4, <1>5 DEF ShopInv

LEMMA ShopRests == ShopInv /\ UNCHANGED installVars => ShopInv'
<1>. SUFFICES ASSUME ShopInv, UNCHANGED installVars PROVE ShopInv'
  OBVIOUS
<1>. USE DEF ShopInv, installVars
<1>1. ShopTypes' /\ Running'
  BY DEF ShopTypes, Shop!TypeOK, Running, OnPath
<1>2. Configurations' /\ Written' /\ Answered'
  BY DEF Configurations, Sound, Written, Ahead, Answered, Installed
<1>3. Hashed' /\ Opened' /\ Seeded' /\ Mounted'
  BY DEF Hashed, Opened, Seeded, Mounted, Installed
<1>4. Fronted' /\ Served'
  BY DEF Fronted, MadeFor, Served, WebSpec, Installed
<1>5. Shop!NeverLocked' /\ Shop!DoneIsServed'
  BY DEF Shop!NeverLocked, Shop!DoneIsServed, Shop!At, Shop!Spec_of
<1>. QED BY <1>1, <1>2, <1>3, <1>4, <1>5

LEMMA ShopStep == ShopInv /\ [Shop!Next]_installVars => ShopInv'
<1>. SUFFICES ASSUME ShopInv, [Shop!Next]_installVars PROVE ShopInv'
  OBVIOUS
<1>1. CASE UNCHANGED installVars
  BY <1>1, ShopRests
<1>2. CASE Shop!Done
  <2>1. UNCHANGED installVars
    BY <1>2 DEF Shop!Done, Shop!vars, installVars
  <2>. QED BY <2>1, ShopRests
<1>. QED BY <1>1, <1>2, WizardKeeps, WriteKeeps, SaveKeeps, ResumeKeeps, MenusKeep, AddressKeeps, DownKeeps, RenderKeeps,
            ReconcileKeeps, BuildKeeps, GenerateKeeps, MoveProfilesKeeps, PasswordKeeps, StartKeeps, HealthKeeps,
            SeedShopKeeps, SeedRatesKeeps, InstalledKeeps, ForgetKeeps, UninstallKeeps, DeleteFolderKeeps, StopKeeps
     DEF Shop!Next

LEMMA ShopInvSuffices == ShopInv => Shop!InstallTrue
<1>. SUFFICES ASSUME ShopInv PROVE Shop!InstallTrue
  OBVIOUS
<1>. USE DEF ShopInv
<1>1. Shop!PendingNeverServed
  BY DEF Served, Shop!PendingNeverServed
<1>2. Shop!InstalledIsWhole
  <2>1. env # Null => env \in Shop!Configs
    BY DEF ShopTypes, Shop!TypeOK
  <2>. QED BY <2>1 DEF Hashed, Seeded, Installed, Shop!InstalledIsWhole
<1>3. Shop!AnswersKept
  <2>. SUFFICES ASSUME run.pc = "forget" PROVE volume.shop = asked.shop /\ volume.rates = asked.rates
    BY DEF Shop!AnswersKept, Shop!At
  <2>1. run.kind \in Shop!Installing
    BY UnderWay DEF OnPath
  <2>. QED BY <2>1 DEF Seeded, Answered
<1>4. Shop!PrinterKept
  BY ShopAssumption DEF Mounted, Shop!PrinterKept
<1>. QED BY <1>1, <1>2, <1>3, <1>4 DEF ShopTypes, Shop!InstallTrue

-----------------------------------------------------------------------------
(* Rates: what orders are billed.                                          *)

\* A whole set of rates, each within its bounds.
RateSets == {r \in [Pricing!Fields -> UNION {AllowedRates[f] : f \in Pricing!Fields}] :
               \A f \in Pricing!Fields : r[f] \in AllowedRates[f]}

SumsAgree == \A f : Pricing!SumFunction(f) = SumFunction(f)

LEMMA PricingSums == SumsAgree
  BY DEF SumsAgree, Pricing!SumFunction, Pricing!SumFunctionOnSet, Pricing!FoldFunctionOnSet,
         Pricing!MapThenFoldSet, SumFunction, SumFunctionOnSet, FoldFunctionOnSet, MapThenFoldSet

LEMMA RoundedIsNat ==
  ASSUME NEW a \in Nat, NEW b \in Nat \ {0}
  PROVE  Pricing!Rounded(a, b) \in Nat
<1>1. 2 * a + b \in Int /\ 2 * b \in Nat \ {0}
  OBVIOUS
<1>2. Pricing!Rounded(a, b) \in Int /\ 2 * a + b < (2 * b) * Pricing!Rounded(a, b) + 2 * b
  BY <1>1, Division DEF Pricing!Rounded
<1>3. CASE Pricing!Rounded(a, b) < 0
  <2>1. Pricing!Rounded(a, b) + 1 <= 0
    BY <1>2, <1>3
  <2>2. (2 * b) * (Pricing!Rounded(a, b) + 1) <= 0
    BY <1>1, <1>2, <2>1
  <2>. QED BY <1>1, <1>2, <2>2
<1>. QED BY <1>2, <1>3

\* The days of printing hold the seconds it takes.
LEMMA DaysSuffice ==
  ASSUME NEW s \in Nat, NEW tariff, tariff["hours"] \in Nat \ {0}
  PROVE  Pricing!PrintDays(s, tariff) \in Int /\ s <= Pricing!PrintDays(s, tariff) * (3600 * tariff["hours"])
<1> DEFINE h == 3600 * tariff["hours"]
<1>1. h \in Nat \ {0} /\ s + h - 1 \in Int
  OBVIOUS
<1>2. Pricing!PrintDays(s, tariff) = (s + h - 1) \div h
  BY DEF Pricing!PrintDays
<1> HIDE DEF h
<1>3. (s + h - 1) \div h \in Int /\ s + h - 1 < h * ((s + h - 1) \div h) + h
  BY <1>1, Division
<1>4. s <= ((s + h - 1) \div h) * h
  BY <1>1, <1>3
<1>. QED BY <1>2, <1>3, <1>4 DEF h

Within(r) == \A f \in Pricing!Fields : r[f] \in AllowedRates[f]

LEMMA RatesAreNat ==
  ASSUME NEW r, Within(r)
  PROVE  /\ r["setup"] \in Nat /\ r["sell"] \in Nat /\ r["power"] \in Nat /\ r["buffer"] \in Nat
         /\ r["hours"] \in Nat \ {0}
  BY RatesAssumption DEF Within, Pricing!Fields

LEMMA NormalizedIsSet ==
  ASSUME NEW raw, version \in 1..Len(Releases)
  PROVE  Pricing!normalizePricing(raw) \in RateSets
<1>1. \A f \in Pricing!Fields : Pricing!normalizePricing(raw)[f] \in AllowedRates[f]
  BY RatesAssumption DEF Pricing!normalizePricing, Pricing!Fields
<1>. QED BY <1>1 DEF RateSets, Pricing!normalizePricing

LEMMA SetIsNormal ==
  ASSUME NEW r \in RateSets
  PROVE  Pricing!normalizePricing(r) = r
  BY DEF Pricing!normalizePricing, RateSets

\* What the statement, the columns and the date ask of a quotation.
AddsUp(b) ==
  /\ b.total = Pricing!SumFunction([i \in DOMAIN b.lines |-> b.lines[i].subtotal])
                 + Pricing!SumFunction(Pricing!Rows(b))
  /\ b.total % 100 = 0

Fits(b) ==
  /\ {b.setup, b.ship, b.tax, b.total} \subseteq 0..MaxColumn
  /\ Pricing!Abs(b.roundOff) <= MaxColumn
  /\ \A i \in DOMAIN b.lines : {b.lines[i].unitSeconds, b.lines[i].subtotal} \subseteq 0..MaxColumn

Promised(b) == b.seconds <= (b.days - b.rates["buffer"]) * 3600 * b.rates["hours"]

\* A bill keeps the rates it was priced by beside those agreed to.
Charged(b, now) ==
  /\ {"at", "rates", "unread", "agreed"} \subseteq DOMAIN b
  /\ b.rates = b.agreed \/ (b.unread /\ \E v \in 1..now : b.rates = Releases[v])

Placed(b) == b.at = "placed" /\ b.items \in BilledOrders /\ b.ship \in Couriers

Priced(b) ==
  /\ {"at", "unread", "agreed", "rates", "lines", "setup", "quote", "ship", "bp", "tax", "roundOff", "total",
       "seconds", "days"} \subseteq DOMAIN b
  /\ AddsUp(b) /\ Promised(b)
  /\ b.at = "priced" \/ (b.at = "stored" /\ Fits(b))

\* A value for each field, and no more.
IsRates(set) == set = [f \in Pricing!Fields |-> set[f]]
IsForm(sheetOf) == "values" \in DOMAIN sheetOf /\ IsRates(sheetOf.values)

BillInv ==
  /\ version \in 1..Len(Releases)
  /\ taxRow \in TaxRates \cup {0}
  /\ (ratesRow = Null /\ agreed = Null) \/ (ratesRow \in RateSets /\ agreed = ratesRow)
  /\ billForm.open => IsForm(billForm)
  /\ bill = Null \/ Placed(bill) \/ (Priced(bill) /\ Charged(bill, version))

\* The rates in force are those agreed to.
LEMMA ForceIsAgreed == BillInv => Pricing!RatesStick
<1>. SUFFICES ASSUME BillInv PROVE Pricing!RatesStick
  OBVIOUS
<1>1. CASE ratesRow = Null /\ agreed = Null
  BY <1>1 DEF Pricing!RatesStick, Pricing!getPricing, Pricing!Agreed
<1>2. CASE ratesRow \in RateSets /\ agreed = ratesRow
  BY <1>2, SetIsNormal DEF Pricing!RatesStick, Pricing!getPricing, Pricing!Agreed
<1>. QED BY <1>1, <1>2 DEF BillInv

LEMMA BillInvSuffices == BillInv => Pricing!BilledRight
<1>. SUFFICES ASSUME BillInv PROVE Pricing!BilledRight
  OBVIOUS
<1>1. Pricing!TypeOK
  BY DEF BillInv, Pricing!TypeOK, RateSets
<1>2. Pricing!Stored => Priced(bill) /\ Charged(bill, version) /\ Fits(bill)
  BY DEF BillInv, Pricing!Stored, Placed, Priced
<1>3. Pricing!BilledByRates
  BY <1>2 DEF Charged, Pricing!BilledByRates
<1>4. Pricing!StatementAddsUp /\ Pricing!ColumnsFit /\ Pricing!EnoughDays
  BY <1>2 DEF Priced, AddsUp, Fits, Promised, Pricing!StatementAddsUp, Pricing!ColumnsFit, Pricing!EnoughDays
<1>. QED BY <1>1, <1>3, <1>4, ForceIsAgreed DEF Pricing!BilledRight

LEMMA BillInit == Pricing!Init => BillInv
  BY RatesAssumption DEF Pricing!Init, Pricing!Closed, BillInv

LEMMA ReadsAreWithin == BillInv => \A unread \in BOOLEAN : Within(Pricing!getPricing(unread))
<1>. SUFFICES ASSUME BillInv, NEW unread \in BOOLEAN PROVE Within(Pricing!getPricing(unread))
  OBVIOUS
<1>1. Within(Releases[version])
  BY RatesAssumption DEF BillInv, Within, Pricing!Fields
<1>2. \A r \in RateSets : Within(r)
  BY DEF RateSets, Within
<1>3. Within(Pricing!normalizePricing(ratesRow))
  BY <1>2, NormalizedIsSet DEF BillInv
<1>. QED BY <1>1, <1>3 DEF Pricing!getPricing

\* The defaults of a version name the fields, as what is read does.
LEMMA ReadsAreRates == BillInv => \A unread \in BOOLEAN : IsRates(Pricing!getPricing(unread))
<1>. SUFFICES ASSUME BillInv, NEW unread \in BOOLEAN PROVE IsRates(Pricing!getPricing(unread))
  OBVIOUS
<1>1. IsRates(Releases[version])
  BY RatesAssumption DEF BillInv, IsRates, Pricing!Fields
<1>2. IsRates(Pricing!normalizePricing(ratesRow))
  BY DEF IsRates, Pricing!normalizePricing
<1>. QED BY <1>1, <1>2 DEF Pricing!getPricing

\* The lines of an order and what they come to.
LEMMA QuoteAddsUp ==
  ASSUME NEW items \in BilledOrders, NEW tariff, Within(tariff)
  PROVE  LET q == Pricing!priceQuote(items, tariff)
             subtotals == [i \in DOMAIN q.lines |-> q.lines[i].subtotal]
         IN /\ SumFunction(subtotals) \in Nat /\ q.setup \in Nat
            /\ q.total = q.setup + SumFunction(subtotals)
            /\ q.seconds \in Nat
<1> DEFINE q == Pricing!priceQuote(items, tariff)
           subtotals == [i \in DOMAIN q.lines |-> q.lines[i].subtotal]
           times == [i \in DOMAIN q.lines |-> q.lines[i].seconds]
<1>1. items \in Seq([grams : Nat, seconds : Nat, quantity : Nat])
  BY RatesAssumption
<1>2. DOMAIN q.lines = 1..Len(items) /\ IsFiniteSet(1..Len(items)) /\ Len(items) \in Nat
  <2>1. Len(items) \in Nat
    BY <1>1
  <2>2. IsFiniteSet(1..Len(items))
    BY <2>1, 1 \in Int, Len(items) \in Int, FS_Interval
  <2>. QED BY <2>1, <2>2 DEF Pricing!priceQuote
<1>3. \A i \in 1..Len(items) : q.lines[i].subtotal \in Nat /\ q.lines[i].seconds \in Nat
  <2>. SUFFICES ASSUME NEW i \in 1..Len(items) PROVE q.lines[i].subtotal \in Nat /\ q.lines[i].seconds \in Nat
    OBVIOUS
  <2>1. items[i].grams \in Nat /\ items[i].seconds \in Nat /\ items[i].quantity \in Nat
    <3> DEFINE L == [grams : Nat, seconds : Nat, quantity : Nat]
    <3>1. items \in Seq(L)
      BY <1>1
    <3>. HIDE DEF L
    <3>2. items[i] \in L
      BY <3>1
    <3>. QED BY <3>2 DEF L
  <2>2. tariff["sell"] \in Nat
    BY RatesAreNat
  <2>3. items[i].grams * items[i].quantity \in Nat /\ items[i].seconds * items[i].quantity \in Nat
    BY <2>1
  <2>4. (items[i].grams * items[i].quantity) * tariff["sell"] \in Nat
    BY <2>2, <2>3
  <2>5. Pricing!Rounded(items[i].grams * items[i].quantity * tariff["sell"], 10) \in Nat
    BY <2>4, 10 \in Nat \ {0}, RoundedIsNat
  <2>. QED BY <2>3, <2>5 DEF Pricing!priceQuote, Pricing!priceLine
<1>4. subtotals \in [1..Len(items) -> Nat] /\ times \in [1..Len(items) -> Nat]
  BY <1>2, <1>3
<1>5. SumFunction(subtotals) \in Nat /\ SumFunction(times) \in Nat
  <2>. HIDE DEF subtotals, times
  <2>. QED BY <1>2, <1>4, SumIsNat
<1>6. q.total = q.setup + Pricing!SumFunction(subtotals) /\ q.seconds = Pricing!SumFunction(times) /\ q.setup = tariff["setup"]
  BY DEF Pricing!priceQuote
<1>. QED BY <1>5, <1>6, PricingSums, RatesAreNat DEF SumsAgree

LEMMA WholeRupees == ASSUME NEW n \in Int PROVE (100 * n) % 100 = 0
  OBVIOUS

\* A quotation as it is priced: whole rupees, summed up, and promised in time.
LEMMA PricedRight ==
  ASSUME BillInv, Pricing!Price
  PROVE  Priced(bill') /\ Charged(bill', version')
<1>1. Placed(bill)
  BY DEF BillInv, Pricing!Price, Priced
<1>2. PICK unread \in BOOLEAN, bp \in {taxRow, 0} :
        LET tariff == Pricing!getPricing(unread)
            quote == Pricing!priceQuote(bill.items, tariff)
            sums == Pricing!withTax(quote.total, bill.ship, bp)
        IN bill' = [at |-> "priced", unread |-> unread, agreed |-> Pricing!Agreed,
                     rates |-> tariff, lines |-> quote.lines, setup |-> quote.setup,
                     quote |-> quote.total, ship |-> bill.ship, bp |-> bp, tax |-> sums.tax,
                     roundOff |-> sums.roundOff, total |-> sums.grand,
                     seconds |-> quote.seconds, days |-> Pricing!estimateCompletionDate(quote.seconds, tariff)]
  BY DEF Pricing!Price
<1> DEFINE tariff == Pricing!getPricing(unread)
<1>a. Charged(bill', version')
  <2>1. bill'.rates = tariff /\ bill'.agreed = Pricing!Agreed /\ bill'.unread = unread
        /\ {"at", "rates", "unread", "agreed"} \subseteq DOMAIN bill'
    BY <1>2
  <2>2. CASE unread
    <3>1. tariff = Releases[version] /\ version \in 1..version'
      BY <2>2, RatesAssumption DEF Pricing!getPricing, Pricing!Price, BillInv
    <3>. QED BY <2>1, <2>2, <3>1 DEF Charged
  <2>3. CASE ~unread
    <3>1. tariff = Pricing!getPricing(FALSE)
      BY <2>3 DEF Pricing!getPricing
    <3>. QED BY <2>1, <3>1, ForceIsAgreed DEF Charged, Pricing!RatesStick
  <2>. QED BY <2>2, <2>3
<1> DEFINE quote == Pricing!priceQuote(bill.items, tariff)
           sums == Pricing!withTax(quote.total, bill.ship, bp)
           subtotals == [i \in DOMAIN quote.lines |-> quote.lines[i].subtotal]
<1>3. Within(tariff) /\ bill.items \in BilledOrders /\ bill.ship \in Nat /\ bp \in Nat
  <2>1. Within(tariff)
    BY ReadsAreWithin
  <2>2. bp \in Nat
    BY <1>2, RatesAssumption DEF BillInv
  <2>. QED BY <1>1, <2>1, <2>2, RatesAssumption DEF Placed
<1>4. /\ SumFunction(subtotals) \in Nat /\ quote.setup \in Nat /\ quote.seconds \in Nat
      /\ quote.total = quote.setup + SumFunction(subtotals)
  BY <1>3, QuoteAddsUp
<1>5. /\ sums.tax \in Nat /\ (bp = 0 => sums.tax = 0)
      /\ sums.grand = 100 * Pricing!Rounded(quote.total + bill.ship + sums.tax, 100)
      /\ sums.roundOff = sums.grand - (quote.total + bill.ship + sums.tax)
  <2>1. (quote.total + bill.ship) * bp \in Nat
    BY <1>3, <1>4
  <2>2. Pricing!taxOn(quote.total + bill.ship, bp) \in Nat
    BY <2>1, RoundedIsNat, 10000 \in Nat \ {0} DEF Pricing!taxOn
  <2>. HIDE DEF quote
  <2>. QED BY <1>3, <2>2 DEF Pricing!withTax
<1>6. sums.grand \in Nat /\ sums.grand % 100 = 0 /\ sums.roundOff \in Int
  <2>1. Pricing!Rounded(quote.total + bill.ship + sums.tax, 100) \in Nat
    <3>. HIDE DEF quote, sums, subtotals
    <3>1. quote.total + bill.ship + sums.tax \in Nat
      BY <1>3, <1>4, <1>5
    <3>. QED BY <3>1, 100 \in Nat \ {0}, RoundedIsNat
  <2>. HIDE DEF quote, sums
  <2>. QED BY <1>3, <1>4, <1>5, <2>1, WholeRupees
<1>7. /\ bill'.lines = quote.lines /\ bill'.setup = quote.setup /\ bill'.ship = bill.ship /\ bill'.bp = bp
      /\ bill'.tax = sums.tax /\ bill'.roundOff = sums.roundOff /\ bill'.total = sums.grand
      /\ bill'.seconds = quote.seconds /\ bill'.rates = tariff /\ bill'.at = "priced"
      /\ bill'.days = Pricing!estimateCompletionDate(quote.seconds, tariff)
  <2>. HIDE DEF quote, sums
  <2>. QED BY <1>2 DEF quote, sums
<1>8. DOMAIN bill' = {"at", "unread", "agreed", "rates", "lines", "setup", "quote", "ship", "bp", "tax", "roundOff", "total", "seconds", "days"}
  BY <1>2
<1>9. AddsUp(bill')
  <2>. HIDE DEF quote, sums
  <2>1. Pricing!Rows(bill') = <<quote.setup, bill.ship, sums.tax, sums.roundOff>>
    BY <1>3, <1>5, <1>7 DEF Pricing!Rows
  <2>2. SumFunction(<<quote.setup, bill.ship, sums.tax, sums.roundOff>>)
          = quote.setup + bill.ship + sums.tax + sums.roundOff
    <3>1. quote.setup \in Int /\ bill.ship \in Int /\ sums.tax \in Int /\ sums.roundOff \in Int
      BY <1>3, <1>4, <1>5, <1>6
    <3>. QED BY <3>1, SumOfFour
  <2>3. [i \in DOMAIN bill'.lines |-> bill'.lines[i].subtotal] = subtotals
    BY <1>7
  <2>4. Pricing!SumFunction(subtotals) = SumFunction(subtotals)
        /\ Pricing!SumFunction(Pricing!Rows(bill')) = SumFunction(Pricing!Rows(bill'))
    BY PricingSums DEF SumsAgree
  <2>. HIDE DEF subtotals
  <2>5. sums.grand = SumFunction(subtotals) + (quote.setup + bill.ship + sums.tax + sums.roundOff)
    BY <1>3, <1>4, <1>5, <1>6
  <2>. QED BY <1>6, <1>7, <2>1, <2>2, <2>3, <2>4, <2>5 DEF AddsUp
<1>10. Promised(bill')
  <2>. HIDE DEF quote, sums
  <2> DEFINE days == Pricing!PrintDays(quote.seconds, tariff)
             h == 3600 * tariff["hours"]
  <2>1. days \in Int /\ quote.seconds <= days * h /\ tariff["buffer"] \in Nat /\ tariff["hours"] \in Nat \ {0}
    BY <1>3, <1>4, DaysSuffice, RatesAreNat
  <2>2. bill'.days = (IF days < 1 THEN 1 ELSE days) + tariff["buffer"]
    BY <1>7 DEF Pricing!estimateCompletionDate
  <2>3. h \in Nat
    BY <2>1
  <2>. HIDE DEF days
  <2>4. bill'.days - tariff["buffer"] \in Int /\ days <= bill'.days - tariff["buffer"]
    BY <2>1, <2>2
  <2>5. (bill'.days - tariff["buffer"]) * 3600 * tariff["hours"] = (bill'.days - tariff["buffer"]) * h
    BY <2>1, <2>4
  <2>. HIDE DEF h
  <2>6. days * h <= (bill'.days - tariff["buffer"]) * h
    <3>1. \A x, y \in Int, z \in Nat : x <= y => x * z <= y * z
      OBVIOUS
    <3>. QED BY <2>1, <2>3, <2>4, <3>1
  <2>7. days * h \in Int /\ (bill'.days - tariff["buffer"]) * h \in Int
    BY <2>1, <2>3, <2>4
  <2>8. quote.seconds <= (bill'.days - tariff["buffer"]) * h
    BY <1>4, <2>1, <2>6, <2>7
  <2>. QED BY <1>7, <2>5, <2>8 DEF Promised
<1>. QED BY <1>a, <1>7, <1>8, <1>9, <1>10 DEF Priced

LEMMA StoredRight ==
  ASSUME BillInv, Pricing!Store
  PROVE  bill' = Null \/ (Priced(bill') /\ Charged(bill', version'))
<1>. SUFFICES ASSUME \A v \in Pricing!persistedIntegers(bill) : v \in 0..MaxColumn
              PROVE  Priced(bill') /\ Charged(bill', version')
  BY DEF Pricing!Store
<1>1. bill' = [bill EXCEPT !.at = "stored"] /\ Priced(bill) /\ Charged(bill, version)
  BY DEF Pricing!Store, BillInv, Placed
<1>2. DOMAIN bill' = DOMAIN bill /\ bill'.at = "stored" /\ bill'.lines = bill.lines /\ bill'.setup = bill.setup
      /\ bill'.ship = bill.ship /\ bill'.bp = bill.bp /\ bill'.tax = bill.tax /\ bill'.roundOff = bill.roundOff
      /\ bill'.total = bill.total /\ bill'.seconds = bill.seconds /\ bill'.days = bill.days /\ bill'.rates = bill.rates
  BY <1>1 DEF Priced
<1>3. Fits(bill)
  <2>1. {bill.setup, bill.ship, bill.tax, bill.total, Pricing!Abs(bill.roundOff)} \subseteq 0..MaxColumn
    BY DEF Pricing!persistedIntegers
  <2>2. ASSUME NEW i \in DOMAIN bill.lines
        PROVE  {bill.lines[i].unitSeconds, bill.lines[i].subtotal} \subseteq 0..MaxColumn
    BY DEF Pricing!persistedIntegers
  <2>3. \A n \in 0..MaxColumn : n <= MaxColumn
    BY RatesAssumption
  <2>. QED BY <2>1, <2>2, <2>3 DEF Fits
<1>4. Fits(bill') /\ AddsUp(bill') /\ Promised(bill')
  <2>1. Pricing!Rows(bill') = Pricing!Rows(bill)
    BY <1>2 DEF Pricing!Rows
  <2>2. [i \in DOMAIN bill'.lines |-> bill'.lines[i].subtotal] = [i \in DOMAIN bill.lines |-> bill.lines[i].subtotal]
    BY <1>2
  <2>3. AddsUp(bill')
    BY <1>1, <1>2, <2>1, <2>2 DEF Priced, AddsUp
  <2>. QED BY <1>1, <1>2, <1>3, <2>3 DEF Priced, Fits, Promised
<1>5. Charged(bill', version')
  <2>1. bill'.unread = bill.unread /\ bill'.agreed = bill.agreed /\ version' = version
    BY <1>1 DEF Priced, Pricing!Store
  <2>. QED BY <1>1, <1>2, <2>1 DEF Charged
<1>. QED BY <1>1, <1>2, <1>4, <1>5 DEF Priced

\* Only a field is typed into.
LEMMA TypedIsRates ==
  ASSUME IsForm(billForm), Pricing!Type
  PROVE  IsForm(billForm')
<1>. USE DEF IsForm
<1>1. PICK f, v : billForm' = [billForm EXCEPT !.values[f] = v, !.typed = @ \cup {f}]
  BY DEF Pricing!Type
<1>2. DOMAIN billForm.values = Pricing!Fields
  BY DEF IsRates
<1>3. "values" \in DOMAIN billForm' /\ billForm'.values = [billForm.values EXCEPT ![f] = v]
  BY <1>1
<1>. QED BY <1>2, <1>3 DEF IsRates

\* What a save or a restore stores is what was agreed to.
LEMMA SavedIsAgreed ==
  ASSUME BillInv, Pricing!Save \/ Pricing!Restore
  PROVE  ratesRow' \in RateSets /\ agreed' = ratesRow'
<1>1. \A raw : Pricing!savePricing(raw) \in RateSets
  BY NormalizedIsSet DEF BillInv, Pricing!savePricing
<1>2. CASE Pricing!Save
  <2>1. /\ ratesRow' = Pricing!normalizePricing(billForm.values) /\ agreed' = billForm.values
        /\ \A f \in DOMAIN billForm.values : billForm.values[f] \in AllowedRates[f]
        /\ billForm.open
    BY <1>2 DEF Pricing!Save, Pricing!savePricing, Pricing!findPricingIssues
  <2>2. IsRates(billForm.values)
    BY <2>1 DEF BillInv, IsForm
  <2>3. Pricing!normalizePricing(billForm.values) = [f \in Pricing!Fields |-> billForm.values[f]]
    BY <2>1, <2>2 DEF IsRates, Pricing!normalizePricing
  <2>. QED BY <1>1, <1>2, <2>1, <2>2, <2>3 DEF IsRates, Pricing!Save
<1>3. CASE Pricing!Restore
  <2>1. PICK fs \in SUBSET Pricing!Fields :
          /\ ratesRow' = Pricing!savePricing([f \in fs |-> Releases[1][f]])
          /\ agreed' = [f \in Pricing!Fields |-> IF f \in fs THEN Releases[1][f] ELSE Releases[version][f]]
    BY <1>3 DEF Pricing!Restore
  <2>2. \A f \in Pricing!Fields : Releases[1][f] \in AllowedRates[f]
    BY RatesAssumption DEF Pricing!Fields
  <2>3. Pricing!normalizePricing([f \in fs |-> Releases[1][f]]) = agreed'
    BY <2>1, <2>2 DEF Pricing!normalizePricing
  <2>. QED BY <1>1, <2>1, <2>3 DEF Pricing!savePricing
<1>. QED BY <1>2, <1>3

LEMMA BillStep == BillInv /\ [Pricing!Next]_billVars => BillInv'
<1>. SUFFICES ASSUME BillInv, [Pricing!Next]_billVars PROVE BillInv'
  OBVIOUS
<1>. USE DEF BillInv
<1>1. CASE UNCHANGED billVars
  BY <1>1 DEF billVars, IsForm, IsRates, Placed, Priced, Charged, AddsUp, Fits, Promised, RateSets, Pricing!Rows, Pricing!Abs,
              Pricing!SumFunction, Pricing!SumFunctionOnSet, Pricing!FoldFunctionOnSet, Pricing!MapThenFoldSet,
              Pricing!Fields
<1>2. UNCHANGED bill /\ version' \in version..Len(Releases) => bill' = Null \/ Placed(bill') \/ (Priced(bill') /\ Charged(bill', version'))
  <2>1. ASSUME UNCHANGED bill, version' \in version..Len(Releases), Charged(bill, version) PROVE Charged(bill', version')
    BY <2>1, RatesAssumption DEF Charged
  <2>2. ASSUME UNCHANGED bill, Priced(bill) PROVE Priced(bill')
    BY <2>2
  <2>3. ASSUME UNCHANGED bill, Placed(bill) PROVE Placed(bill')
    BY <2>3 DEF Placed
  <2>. QED BY <2>1, <2>2, <2>3
<1>3. version' = version => version' \in version..Len(Releases)
  BY RatesAssumption
<1>4. CASE Pricing!Open
  <2>1. billForm'.open => IsForm(billForm')
    BY <1>4, ReadsAreRates DEF Pricing!Open, Pricing!Reads, IsForm, IsRates, Pricing!Fields
  <2>. QED BY <1>2, <1>3, <1>4, <2>1 DEF Pricing!Open
<1>5. CASE Pricing!Type
  BY <1>2, <1>3, <1>5, TypedIsRates DEF Pricing!Type
<1>6. CASE Pricing!Leave
  BY <1>2, <1>3, <1>6 DEF Pricing!Leave, Pricing!Closed
<1>7. CASE Pricing!Save \/ Pricing!Restore
  <2>1. billForm'.open => billForm.open /\ billForm'.values = billForm.values /\ DOMAIN billForm' = DOMAIN billForm
    <3>1. CASE Pricing!Save
      <4>1. billForm' = [billForm EXCEPT !.typed = {}] /\ billForm.open /\ "values" \in DOMAIN billForm
        BY <3>1 DEF Pricing!Save, IsForm
      <4>. QED BY <4>1
    <3>2. CASE Pricing!Restore
      BY <3>2 DEF Pricing!Restore
    <3>. QED BY <1>7, <3>1, <3>2
  <2>2. version' = version /\ UNCHANGED <<bill, taxRow>>
    BY <1>7 DEF Pricing!Save, Pricing!Restore
  <2>3. billForm'.open => IsForm(billForm')
    BY <2>1 DEF IsForm, IsRates, Pricing!Fields
  <2>. QED BY <1>2, <1>3, <1>7, <2>2, <2>3, SavedIsAgreed
<1>8. CASE Pricing!Upgrade
  <2>1. version' \in version..Len(Releases) /\ version' \in 1..Len(Releases) /\ billForm' = Pricing!Closed
    BY <1>8, RatesAssumption DEF Pricing!Upgrade
  <2>. QED BY <1>2, <1>8, <2>1 DEF Pricing!Upgrade, Pricing!Closed
<1>9. CASE Pricing!SaveTax
  BY <1>2, <1>3, <1>9 DEF Pricing!SaveTax
<1>10. CASE Pricing!Place
  BY <1>10 DEF Pricing!Place, Placed
<1>11. CASE Pricing!Price
  BY <1>11, PricedRight DEF Pricing!Price
<1>12. CASE Pricing!Store
  BY <1>12, StoredRight DEF Pricing!Store
<1>13. CASE Pricing!Done
  BY <1>13 DEF Pricing!Done
<1>. QED BY <1>1, <1>4, <1>5, <1>6, <1>7, <1>8, <1>9, <1>10, <1>11, <1>12, <1>13 DEF Pricing!Next

\* An order is billed by the rates the owner saved last, as they were then, or by the
\* defaults of a release when these could not be read, to the rupee, within the columns
\* and with the days its printing takes; no upgrade and no restore of fewer rates
\* reprices what was saved.
THEOREM BilledAlways == AllSpec => []BilledRight
<1>1. AllInit => BillInv
  BY BillInit DEF AllInit
<1>2. [AllNext]_allVars => [Pricing!Next]_billVars
  BY DEF AllNext, allVars, billVars
<1>3. BillInv /\ [AllNext]_allVars => BillInv'
  BY <1>2, BillStep
<1>4. BillInv => BilledRight
  BY BillInvSuffices DEF BilledRight
<1>. QED BY <1>1, <1>3, <1>4, PTL DEF AllSpec

-----------------------------------------------------------------------------
(* DatabaseRoles: the rights of the runtime roles.                         *)

Lists == 1..16

\* The statement at each place of the list.
LEMMA StatementsAre ==
  /\ DOMAIN Roles!Statements = Lists /\ Len(Roles!Statements) = 16
  /\ Roles!Statements[1] = Roles!Revoked(Roles!Tables)
  /\ \A i \in 1..15 : Roles!Statements[i + 1] = Roles!Grants[i]
<1>1. Len(Roles!Grants) = 15 /\ Roles!Grants \in Seq({Roles!Grants[i] : i \in 1..15})
  BY DEF Roles!Grants
<1> DEFINE S == {Roles!Grants[i] : i \in 1..15} \cup {Roles!Revoked(Roles!Tables)}
           G == Roles!Grants
           H == <<Roles!Revoked(Roles!Tables)>>
<1>2. G \in Seq(S) /\ H \in Seq(S) /\ Len(G) = 15 /\ Len(H) = 1 /\ H[1] = Roles!Revoked(Roles!Tables)
  BY <1>1
<1> HIDE DEF S, G, H
<1>3. DOMAIN (H \o G) = Lists /\ Len(H \o G) = 16 /\ (H \o G)[1] = H[1] /\ \A i \in 1..15 : (H \o G)[i + 1] = G[i]
  <2>1. /\ H \o G \in Seq(S) /\ Len(H \o G) = Len(H) + Len(G)
        /\ \A i \in 1..Len(H) + Len(G) : (H \o G)[i] = IF i <= Len(H) THEN H[i] ELSE G[i - Len(H)]
    BY <1>2, ConcatProperties
  <2> DEFINE HG == H \o G
  <2>2. DOMAIN HG = 1..Len(HG)
    BY <2>1, LenProperties
  <2>3. \A i \in 1..Len(H) + Len(G) : HG[i] = IF i <= Len(H) THEN H[i] ELSE G[i - Len(H)]
    BY <2>1
  <2>4. Len(HG) = Len(H) + Len(G)
    BY <2>1
  <2>. HIDE DEF HG
  <2>5. Len(HG) = 16 /\ DOMAIN HG = Lists
    BY <1>2, <2>2, <2>4 DEF Lists
  <2>6. \A i \in 1..16 : HG[i] = IF i <= 1 THEN H[i] ELSE G[i - 1]
    BY <1>2, <2>3
  <2>7. HG[1] = H[1]
    BY <2>6
  <2>8. \A i \in 1..15 : HG[i + 1] = G[i]
    <3>1. \A i \in 1..15 : i + 1 \in 1..16 /\ ~(i + 1 <= 1) /\ (i + 1) - 1 = i
      OBVIOUS
    <3>. QED BY <2>6, <3>1
  <2>. QED BY <2>5, <2>7, <2>8 DEF HG
<1>. QED BY <1>2, <1>3 DEF Roles!Statements, G, H

LEMMA GrantsAre ==
  /\ Roles!Grants[1] = Roles!Granted(Roles!On("web", {"SELECT"} \union Roles!Changes, Roles!Quotes, Roles!Whole))
  /\ Roles!Grants[2] = Roles!Granted(Roles!On("web", {"SELECT", "INSERT", "UPDATE"}, {"AppSetting"}, Roles!Whole))
  /\ Roles!Grants[3] = Roles!Granted(Roles!On("worker", {"SELECT"}, {"AppSetting"}, Roles!Whole))
  /\ Roles!Grants[4] = Roles!Granted(Roles!On("web", {"SELECT", "UPDATE", "DELETE"}, {"UploadedModel"}, Roles!Whole))
  /\ Roles!Grants[5] = Roles!Granted(Roles!On("web", {"SELECT"}, {"SliceResult"}, Roles!Whole))
  /\ Roles!Grants[6] = Roles!Granted(Roles!On("web", {"INSERT"}, {"SliceResult"}, {"identity", "lifecycle", "version"}))
  /\ Roles!Grants[7] = Roles!Granted(Roles!On("web", {"UPDATE"}, {"SliceResult"}, {"lifecycle", "failure"}))
  /\ Roles!Grants[8] = Roles!Granted(Roles!On("web", {"SELECT"}, {"SlicerProfileUpload"}, Roles!Whole))
  /\ Roles!Grants[9] = Roles!Granted(Roles!On("web", {"INSERT"}, {"SlicerProfileUpload"}, {"upload", "status"}))
  /\ Roles!Grants[10] = Roles!Granted(Roles!On("web", {"UPDATE"}, {"SlicerProfileUpload"}, {"status", "error"}))
  /\ Roles!Grants[11] = Roles!Granted(Roles!On("worker", {"SELECT", "UPDATE"}, {"SlicerProfileUpload"}, Roles!Whole))
  /\ Roles!Grants[12] = Roles!Granted(Roles!On("worker", {"SELECT"} \union Roles!Changes, {"UploadedModel"}, Roles!Whole))
  /\ Roles!Grants[13] = Roles!Granted(Roles!On("worker", {"SELECT", "UPDATE"}, {"SliceResult"}, Roles!Whole))
  /\ Roles!Grants[14] = Roles!Granted(Roles!On("worker", {"SELECT", "DELETE"}, {"Quotation"}, Roles!Whole))
  /\ Roles!Grants[15] = Roles!Granted(Roles!On("worker", {"SELECT"}, {"QuotationItem"}, Roles!Whole))
  BY DEF Roles!Grants

LEMMA TakesAndGives ==
  /\ Roles!Statements[1].takes = Roles!Tables /\ Roles!Statements[1].gives = {}
  /\ \A i \in 2..16 : Roles!Statements[i].takes = {} /\ Roles!Statements[i].gives = Roles!Grants[i - 1].gives
<1>1. \A i \in 1..15 : Roles!Grants[i].takes = {}
  BY GrantsAre DEF Roles!Granted
<1>2. \A i \in 2..16 : i - 1 \in 1..15 /\ (i - 1) + 1 = i
  OBVIOUS
<1>. QED BY <1>1, <1>2, StatementsAre DEF Roles!Revoked

\* What the list gives, right by right.
GivenRight(role, op, table, column) ==
  \/ role = "web" /\ op \in {"SELECT", "INSERT", "UPDATE", "DELETE"} /\ table \in Roles!Quotes /\ column = "*"
  \/ role = "web" /\ op \in {"SELECT", "INSERT", "UPDATE"} /\ table = "AppSetting" /\ column = "*"
  \/ role = "worker" /\ op = "SELECT" /\ table = "AppSetting" /\ column = "*"
  \/ role = "web" /\ op \in {"SELECT", "UPDATE", "DELETE"} /\ table = "UploadedModel" /\ column = "*"
  \/ role = "web" /\ op = "SELECT" /\ table = "SliceResult" /\ column = "*"
  \/ role = "web" /\ op = "INSERT" /\ table = "SliceResult" /\ column \in {"identity", "lifecycle", "version"}
  \/ role = "web" /\ op = "UPDATE" /\ table = "SliceResult" /\ column \in {"lifecycle", "failure"}
  \/ role = "web" /\ op = "SELECT" /\ table = "SlicerProfileUpload" /\ column = "*"
  \/ role = "web" /\ op = "INSERT" /\ table = "SlicerProfileUpload" /\ column \in {"upload", "status"}
  \/ role = "web" /\ op = "UPDATE" /\ table = "SlicerProfileUpload" /\ column \in {"status", "error"}
  \/ role = "worker" /\ op \in {"SELECT", "UPDATE"} /\ table = "SlicerProfileUpload" /\ column = "*"
  \/ role = "worker" /\ op \in {"SELECT", "INSERT", "UPDATE", "DELETE"} /\ table = "UploadedModel" /\ column = "*"
  \/ role = "worker" /\ op \in {"SELECT", "UPDATE"} /\ table = "SliceResult" /\ column = "*"
  \/ role = "worker" /\ op \in {"SELECT", "DELETE"} /\ table = "Quotation" /\ column = "*"
  \/ role = "worker" /\ op = "SELECT" /\ table = "QuotationItem" /\ column = "*"

LEMMA GivenIs ==
  Roles!AllGranted = UNION {Roles!Grants[i].gives : i \in 1..15}
<1>1. Roles!AllGranted = UNION {Roles!Statements[i].gives : i \in Lists}
  BY StatementsAre DEF Roles!AllGranted, Roles!Range
<1>2. \A x : (\E i \in Lists : x \in Roles!Statements[i].gives) <=> (\E i \in 1..15 : x \in Roles!Grants[i].gives)
  <2>. SUFFICES ASSUME NEW x PROVE (\E i \in Lists : x \in Roles!Statements[i].gives) <=> (\E i \in 1..15 : x \in Roles!Grants[i].gives)
    OBVIOUS
  <2>1. ASSUME NEW i \in Lists, x \in Roles!Statements[i].gives PROVE \E j \in 1..15 : x \in Roles!Grants[j].gives
    <3>1. i # 1 /\ i \in 2..16 /\ i - 1 \in 1..15
      BY <2>1, TakesAndGives DEF Lists
    <3>. QED BY <2>1, <3>1, TakesAndGives
  <2>2. ASSUME NEW j \in 1..15, x \in Roles!Grants[j].gives PROVE \E i \in Lists : x \in Roles!Statements[i].gives
    <3>1. j + 1 \in 2..16 /\ j + 1 \in Lists /\ (j + 1) - 1 = j
      BY DEF Lists
    <3>. QED BY <2>2, <3>1, TakesAndGives
  <2>. QED BY <2>1, <2>2
<1>. QED BY <1>1, <1>2

LEMMA GivenRights ==
  \A role, op, table, column :
    <<role, op, table, column>> \in Roles!AllGranted <=> GivenRight(role, op, table, column)
<1>. SUFFICES ASSUME NEW role, NEW op, NEW table, NEW column
              PROVE  <<role, op, table, column>> \in Roles!AllGranted <=> GivenRight(role, op, table, column)
  OBVIOUS
<1> DEFINE x == <<role, op, table, column>>
<1>1. ASSUME NEW r, NEW O, NEW T, NEW C
      PROVE  x \in Roles!Granted(Roles!On(r, O, T, C)).gives <=> role = r /\ op \in O /\ table \in T /\ column \in C
  BY DEF Roles!Granted, Roles!On
<1>2. x \in Roles!AllGranted <=> \E i \in 1..15 : x \in Roles!Grants[i].gives
  BY GivenIs
<1>. HIDE DEF x
<1>3. (\E i \in 1..15 : x \in Roles!Grants[i].gives) <=>
        \/ x \in Roles!Grants[1].gives \/ x \in Roles!Grants[2].gives \/ x \in Roles!Grants[3].gives
        \/ x \in Roles!Grants[4].gives \/ x \in Roles!Grants[5].gives \/ x \in Roles!Grants[6].gives
        \/ x \in Roles!Grants[7].gives \/ x \in Roles!Grants[8].gives \/ x \in Roles!Grants[9].gives
        \/ x \in Roles!Grants[10].gives \/ x \in Roles!Grants[11].gives \/ x \in Roles!Grants[12].gives
        \/ x \in Roles!Grants[13].gives \/ x \in Roles!Grants[14].gives \/ x \in Roles!Grants[15].gives
  OBVIOUS
<1>. QED BY <1>1, <1>2, <1>3, GrantsAre DEF GivenRight, x, Roles!Changes, Roles!Whole

LEMMA EveryRightOnTables ==
  \A r \in Roles!AllGranted \cup Roles!Earlier : r[3] \in Roles!Tables
<1>1. ASSUME NEW r, r \in Roles!Earlier PROVE r[3] \in Roles!Tables
  BY <1>1 DEF Roles!Earlier, Roles!On, Roles!Tables
<1>2. ASSUME NEW r, r \in Roles!AllGranted PROVE r[3] \in Roles!Tables
  <2>1. PICK i \in 1..15 : r \in Roles!Grants[i].gives
    BY <1>2, GivenIs
  <2>2. ASSUME NEW p, NEW O, NEW T, NEW C, T \subseteq Roles!Tables,
               Roles!Grants[i] = Roles!Granted(Roles!On(p, O, T, C))
        PROVE  r[3] \in Roles!Tables
    BY <2>1, <2>2 DEF Roles!Granted, Roles!On
  <2>3. /\ Roles!Quotes \subseteq Roles!Tables
        /\ {"AppSetting"} \subseteq Roles!Tables /\ {"UploadedModel"} \subseteq Roles!Tables
        /\ {"SliceResult"} \subseteq Roles!Tables /\ {"SlicerProfileUpload"} \subseteq Roles!Tables
        /\ {"Quotation"} \subseteq Roles!Tables /\ {"QuotationItem"} \subseteq Roles!Tables
    BY DEF Roles!Tables, Roles!Quotes
  <2>4. i \in {1, 2, 3, 4, 5, 6, 7, 8, 9, 10, 11, 12, 13, 14, 15}
    OBVIOUS
  <2>. QED BY <2>2, <2>3, <2>4, GrantsAre
<1>. QED BY <1>1, <1>2

\* The list is enough for what the shop does, and gives the web nothing of the worker's.
LEMMA GivenIsEnough ==
  \A s \in Roles!Uses :
    \/ <<s.role, s.op, s.table, "*">> \in Roles!AllGranted
    \/ \A c \in s.columns : <<s.role, s.op, s.table, c>> \in Roles!AllGranted
<1> DEFINE Enough(s) == \/ GivenRight(s.role, s.op, s.table, "*")
                        \/ \A c \in s.columns : GivenRight(s.role, s.op, s.table, c)
<1>1. Enough(Roles!requestSlice) /\ Enough(Roles!retrySlice) /\ Enough(Roles!writeMeasured)
  BY DEF Roles!requestSlice, Roles!retrySlice, Roles!writeMeasured, Roles!Use, GivenRight
<1>2. Enough(Roles!insertModel) /\ Enough(Roles!claimModel) /\ \A r \in Roles!Runtime : Enough(Roles!removeModel(r))
  BY DEF Roles!insertModel, Roles!claimModel, Roles!removeModel, Roles!Runtime, Roles!Use, GivenRight
<1>3. Enough(Roles!queueProfileUpload) /\ Enough(Roles!revertToInstalled) /\ Enough(Roles!notQueued) /\ Enough(Roles!goLive)
  BY DEF Roles!queueProfileUpload, Roles!revertToInstalled, Roles!notQueued, Roles!goLive, Roles!Use, GivenRight
<1>4. Enough(Roles!expireQuotation) /\ Enough(Roles!readPolicy)
  BY DEF Roles!expireQuotation, Roles!readPolicy, Roles!Use, GivenRight
<1>5. \A o \in {"INSERT", "UPDATE"} : Enough(Roles!saveSetting(o)) /\ \A t \in Roles!Quotes : Enough(Roles!createQuotation(o, t))
  BY DEF Roles!saveSetting, Roles!createQuotation, Roles!Use, GivenRight
<1>6. \A s \in Roles!Uses : Enough(s)
  <2>. HIDE DEF Enough
  <2>. QED BY <1>1, <1>2, <1>3, <1>4, <1>5 DEF Roles!Uses
<1>. QED BY <1>6, GivenRights

LEMMA GivenIsNotTrusted ==
  \A s \in Roles!Trusted :
    /\ <<s.role, s.op, s.table, "*">> \notin Roles!AllGranted
    /\ \E c \in s.columns : <<s.role, s.op, s.table, c>> \notin Roles!AllGranted
<1>1. \A s \in Roles!Trusted :
        /\ ~GivenRight(s.role, s.op, s.table, "*")
        /\ \E c \in s.columns : ~GivenRight(s.role, s.op, s.table, c)
  BY DEF Roles!Trusted, Roles!Use, GivenRight, Roles!Quotes
<1>. QED BY <1>1, GivenRights

RolesInv ==
  /\ at \in 0..16 /\ starts \in 0..MaxStarts
  /\ rights \subseteq Roles!AllGranted \cup Roles!Earlier
  /\ provisioned => rights \subseteq Roles!AllGranted
  /\ at > 1 => provisioned /\ \A i \in Lists : i < at => Roles!Statements[i].gives \subseteq rights
  /\ at = 0 /\ ~broken => Roles!AllGranted \subseteq rights
  /\ \A r \in refused : r.live

LEMMA RolesInvSuffices == RolesInv => Roles!RightsFit
<1>. SUFFICES ASSUME RolesInv PROVE Roles!RightsFit
  OBVIOUS
<1>1. Roles!TypeOK
  BY StatementsAre DEF RolesInv, Roles!TypeOK
<1>2. Roles!GrantsFit
  <2>1. ASSUME at = 0, ~broken PROVE \A s \in Roles!Uses : Roles!Allowed(s)
    BY <2>1, GivenIsEnough DEF RolesInv, Roles!Allowed
  <2>. QED BY <2>1 DEF RolesInv, Roles!GrantsFit
<1>3. Roles!WorkerOutputTrusted
  BY GivenIsNotTrusted DEF RolesInv, Roles!WorkerOutputTrusted, Roles!Allowed
<1>. QED BY <1>1, <1>2, <1>3 DEF Roles!RightsFit

LEMMA RolesInit == Roles!Init => RolesInv
  BY StartsAssumption DEF Roles!Init, RolesInv

LEMMA RolesStep == RolesInv /\ [Roles!Next]_roleVars => RolesInv'
<1>. SUFFICES ASSUME RolesInv, [Roles!Next]_roleVars PROVE RolesInv'
  OBVIOUS
<1>. USE DEF RolesInv
<1>1. CASE UNCHANGED roleVars
  BY <1>1 DEF roleVars
<1>2. CASE Roles!Migrate
  BY <1>2, StartsAssumption DEF Roles!Migrate
<1>3. CASE Roles!Statement
  <2>1. at \in Lists /\ rights' = {r \in rights : r[3] \notin Roles!Statements[at].takes} \cup Roles!Statements[at].gives
        /\ at' = (IF at = 16 THEN 0 ELSE at + 1) /\ provisioned' = TRUE /\ starts' = starts /\ refused' = refused
    BY <1>3, StatementsAre DEF Roles!Statement, Roles!Applied, Lists
  <2>2. Roles!Statements[at].gives \subseteq Roles!AllGranted
    BY <2>1, StatementsAre DEF Roles!AllGranted, Roles!Range
  <2>3. CASE at = 1
    <3>1. rights' = {}
      BY <2>1, <2>3, EveryRightOnTables, TakesAndGives
    <3>2. at' = 2 /\ \A i \in Lists : i < 2 => Roles!Statements[i].gives = {}
      BY <2>1, <2>3, TakesAndGives DEF Lists
    <3>. QED BY <2>1, <3>1, <3>2
  <2>4. CASE at # 1
    <3>1. at > 1 /\ at \in 2..16
      BY <2>1, <2>4 DEF Lists
    <3>2. rights' = rights \cup Roles!Statements[at].gives
      BY <2>1, <3>1, TakesAndGives
    <3>3. \A i \in Lists : i <= at => Roles!Statements[i].gives \subseteq rights'
      BY <3>1, <3>2 DEF Lists
    <3>4. rights' \subseteq Roles!AllGranted
      BY <2>2, <3>1, <3>2
    <3>5. CASE at = 16
      <4>1. Roles!AllGranted \subseteq rights'
        BY <3>3, <3>5, StatementsAre DEF Roles!AllGranted, Roles!Range, Lists
      <4>. QED BY <2>1, <3>4, <3>5, <4>1
    <3>6. CASE at # 16
      BY <2>1, <3>1, <3>3, <3>4, <3>6 DEF Lists
    <3>. QED BY <3>5, <3>6
  <2>. QED BY <2>3, <2>4
<1>4. CASE Roles!BreakOff
  BY <1>4 DEF Roles!BreakOff
<1>5. ASSUME NEW s \in Roles!Uses, Roles!Execute(s) PROVE RolesInv'
  <2>1. at # 0 \/ broken
    BY <1>5, RolesInvSuffices DEF Roles!RightsFit, Roles!GrantsFit, Roles!Execute
  <2>2. \A r \in refused' : r.live = (at # 0 \/ broken)
    BY <1>5 DEF Roles!Execute
  <2>3. \A r \in refused' : r.live
    BY <2>1, <2>2, Zenon
  <2>. QED BY <1>5, <2>3 DEF Roles!Execute
<1>. QED BY <1>1, <1>2, <1>3, <1>4, <1>5 DEF Roles!Next

-----------------------------------------------------------------------------
(* RateLimits: guesses at the login.                                       *)

LEMMA LoginCounts == \A S : Login!Cardinality(S) = Cardinality(S)
  BY DEF Login!Cardinality, Login!IsFiniteSet, Cardinality, IsFiniteSet

Entries == [of : Attempts, age : Nat]

Bucket(b, max) == b \subseteq Entries /\ IsFiniteSet(b) /\ Cardinality(b) <= max

\* A finite bucket has an oldest entry.
LEMMA OldestExists ==
  ASSUME NEW b, b \subseteq Entries, IsFiniteSet(b), b # {}
  PROVE  Login!Oldest(b) \in b /\ \A f \in b : Login!Oldest(b).age >= f.age
<1> DEFINE Covers(T) == \A e \in b : \E t \in T : t.age >= e.age
           Covering == {T \in FiniteSubsetsOf(b) : Covers(T)}
<1>1. FiniteSubsetsOf(b) = SUBSET b
  BY FS_FiniteSubsetsOfFinite
<1>2. \A e \in b : e.age \in Nat
  BY DEF Entries
<1>3. b \in Covering
  BY <1>1, <1>2
<1>4. PICK T \in Covering : \A U \in Covering : ~(<<U, T>> \in StrictSubsetOrdering(b))
  BY <1>3, FS_StrictSubsetOrderingWellFounded, WFMin
<1>5. \A U \in SUBSET T : U # T => ~Covers(U)
  BY <1>1, <1>4 DEF StrictSubsetOrdering
<1>6. PICK t \in T : TRUE
  BY <1>3, <1>4
<1>7. \A s \in T : s = t
  <2>. SUFFICES ASSUME NEW s \in T, s # t PROVE FALSE
    OBVIOUS
  <2>1. s.age \in Nat /\ t.age \in Nat
    BY <1>1, <1>2, <1>4
  <2>2. CASE s.age >= t.age
    <3>1. Covers(T \ {t})
      BY <1>1, <1>2, <1>4, <2>1, <2>2
    <3>. QED BY <1>5, <3>1
  <2>3. CASE t.age >= s.age
    <3>1. Covers(T \ {s})
      BY <1>1, <1>2, <1>4, <2>1, <2>3
    <3>. QED BY <1>5, <3>1
  <2>. QED BY <2>1, <2>2, <2>3
<1>8. t \in b /\ \A f \in b : t.age >= f.age
  BY <1>1, <1>4, <1>7
<1>. QED BY <1>8 DEF Login!Oldest

\* The script of Redis keeps a bucket within its maximum.
LEMMA ReserveBounded ==
  ASSUME NEW b, NEW max \in Nat, Bucket(b, max), NEW m \in Entries
  PROVE  /\ Bucket(Login!Reserved(b, max, m), max)
         /\ Login!Reserved(b, max, m) = IF Login!Admits(b, max, m)
              THEN Login!Pruned(b, m.age) \cup {m} ELSE Login!Pruned(b, m.age)
<1> DEFINE kept == Login!Pruned(b, m.age)
<1>1. kept \subseteq b /\ kept \subseteq Entries /\ IsFiniteSet(kept) /\ Cardinality(kept) <= Cardinality(b)
      /\ Cardinality(kept) \in Nat /\ Cardinality(b) \in Nat
  BY FS_Subset, FS_CardinalityType DEF Login!Pruned, Bucket
<1>2. Login!Reserved(b, max, m) = IF Login!Admits(b, max, m) THEN kept \cup {m} ELSE kept
  BY DEF Login!Reserved, Login!Admits
<1>3. Login!Admits(b, max, m) <=> Cardinality(kept) < max
  BY LoginCounts DEF Login!Admits
<1>. HIDE DEF kept
<1>4. IsFiniteSet(kept \cup {m}) /\ Cardinality(kept \cup {m}) <= Cardinality(kept) + 1 /\ Cardinality(kept \cup {m}) \in Nat
  <2>1. IsFiniteSet(kept \cup {m}) /\ Cardinality(kept \cup {m}) = (IF m \in kept THEN Cardinality(kept) ELSE Cardinality(kept) + 1)
    BY <1>1, FS_AddElement
  <2>. QED BY <1>1, <2>1
<1>5. CASE Cardinality(kept) < max
  BY <1>1, <1>2, <1>3, <1>4, <1>5 DEF Bucket, kept
<1>6. CASE ~(Cardinality(kept) < max)
  BY <1>1, <1>2, <1>3, <1>6 DEF Bucket, kept
<1>. QED BY <1>5, <1>6

\* Who is refused is told when the oldest of them leaves.
LEMMA RefusalTrue ==
  ASSUME NEW b, NEW max \in Nat \ {0}, Bucket(b, max), NEW m \in Entries, ~Login!Admits(b, max, m),
         NEW r, r = Login!Refused(Login!Reserved(b, max, m), max, m.age)
  PROVE  Cardinality({e \in r.bucket : e.age + r.retry < Window}) < r.max
<1> DEFINE kept == Login!Pruned(b, m.age)
           o == Login!Oldest(kept)
           soon == {e \in kept : e.age + r.retry < Window}
<1>1. kept \subseteq Entries /\ IsFiniteSet(kept) /\ Cardinality(kept) \in Nat /\ Cardinality(kept) <= Cardinality(b)
  BY FS_Subset, FS_CardinalityType DEF Login!Pruned, Bucket
<1>2. Login!Reserved(b, max, m) = kept /\ ~(Cardinality(kept) < max)
  BY ReserveBounded, LoginCounts DEF Login!Admits
<1>3. r.bucket = kept /\ r.max = max /\ r.retry = Login!RetryAfter(kept, m.age)
  BY <1>2 DEF Login!Refused
<1>4. Cardinality(kept) = max /\ kept # {}
  <2>1. Cardinality(b) <= max /\ Cardinality(b) \in Nat
    BY FS_CardinalityType DEF Bucket
  <2>. HIDE DEF kept
  <2>. QED BY <1>1, <1>2, <2>1, FS_EmptySet
<1>5. o \in kept
  BY <1>1, <1>4, OldestExists
<1>6. o.age \in Nat /\ o.age < m.age + Window /\ m.age \in Nat
  BY <1>1, <1>5 DEF Login!Pruned, Entries
<1>7. r.retry = Window + m.age - o.age
  <2>. HIDE DEF kept, o
  <2>. QED BY <1>3, <1>6, LoginAssumption DEF Login!RetryAfter, o
<1>8. o \notin soon
  <2>. HIDE DEF kept, o
  <2>. QED BY <1>6, <1>7, LoginAssumption
<1>. HIDE DEF kept, o
<1>9. soon \in SUBSET (kept \ {o})
  BY <1>8
<1>10. IsFiniteSet(kept \ {o}) /\ Cardinality(kept \ {o}) = max - 1
  BY <1>1, <1>4, <1>5, FS_RemoveElement
<1>11. Cardinality(soon) <= max - 1 /\ Cardinality(soon) \in Nat
  <2>. HIDE DEF soon
  <2>1. Cardinality(soon) <= Cardinality(kept \ {o}) /\ IsFiniteSet(soon)
    BY <1>9, <1>10, FS_Subset
  <2>. QED BY <1>10, <2>1, FS_CardinalityType
<1>12. Cardinality(soon) < max
  <2>. HIDE DEF soon
  <2>. QED BY <1>11
<1>. QED BY <1>3, <1>12

\* A bucket a tick later.
LEMMA OlderIs ==
  ASSUME NEW b, b \subseteq Entries
  PROVE  /\ Login!Older(b) \subseteq Entries
         /\ \A x \in Login!Older(b) : \E e \in b : x.of = e.of /\ x.age = e.age + 1
         /\ \A e \in b : e.age + 1 < Window + Delay => \E x \in Login!Older(b) : x.of = e.of /\ x.age = e.age + 1
<1>1. \A e \in b : e = [of |-> e.of, age |-> e.age] /\ e.of \in Attempts /\ e.age \in Nat
  BY DEF Entries
<1>2. \A e \in b : [e EXCEPT !.age = @ + 1] = [of |-> e.of, age |-> e.age + 1]
  BY <1>1
<1>3. ASSUME NEW x \in Login!Older(b)
      PROVE  x \in Entries /\ \E e \in b : x.of = e.of /\ x.age = e.age + 1
  <2>1. PICK e \in b : x = [e EXCEPT !.age = @ + 1]
    BY DEF Login!Older
  <2>2. x = [of |-> e.of, age |-> e.age + 1]
    BY <1>2, <2>1
  <2>. QED BY <1>1, <2>2 DEF Entries
<1>4. ASSUME NEW e \in b, e.age + 1 < Window + Delay
      PROVE  \E x \in Login!Older(b) : x.of = e.of /\ x.age = e.age + 1
  <2>1. [e EXCEPT !.age = @ + 1] \in Login!Older(b)
    BY <1>4 DEF Login!Older
  <2>. QED BY <1>2, <2>1
<1>. QED BY <1>3, <1>4

LEMMA OlderBounded ==
  ASSUME NEW b, NEW max \in Nat, Bucket(b, max)
  PROVE  Bucket(Login!Older(b), max)
<1> DEFINE young == {f \in b : f.age + 1 < Window + Delay}
           age == [e \in young |-> [e EXCEPT !.age = @ + 1]]
<1>1. young \in SUBSET b
  OBVIOUS
<1>2. IsFiniteSet(young) /\ Cardinality(young) <= Cardinality(b)
  BY <1>1, FS_Subset DEF Bucket
<1>3. Login!Older(b) = {age[e] : e \in young}
  BY DEF Login!Older
<1>4. age \in Surjection(young, Login!Older(b))
  BY <1>3 DEF Surjection
<1>5. IsFiniteSet(Login!Older(b)) /\ Cardinality(Login!Older(b)) <= Cardinality(young)
  <2>. HIDE DEF age, young
  <2>. QED BY <1>2, <1>4, FS_Surjection
<1>6. Cardinality(Login!Older(b)) \in Nat /\ Cardinality(young) \in Nat /\ Cardinality(b) \in Nat
  BY <1>2, <1>5, FS_CardinalityType DEF Bucket
<1>7. Login!Older(b) \subseteq Entries
  BY OlderIs DEF Bucket
<1>. HIDE DEF young
<1>. QED BY <1>2, <1>5, <1>6, <1>7 DEF Bucket

Requests == {Login!Idle} \cup [at : {"reserving", "verifying"}, right : BOOLEAN, stamp : 0..Delay]

\* The part of the invariant that is about the shared window and the guesses.
GuessesKnown ==
  /\ \A g \in guesses : request[g.of] = Login!Idle
  /\ \A g, h \in guesses : g.of = h.of => g = h
  /\ \A g \in guesses : g.age + 2 * Delay < Window => \E e \in all : e.of = g.of /\ e.age <= g.age + 2 * Delay

PlacesKnown ==
  /\ \A a \in Attempts : request[a].at = "verifying" /\ request[a].stamp + Delay < Window =>
       \E e \in all : e.of = a /\ e.age <= request[a].stamp + Delay
  /\ \A e \in all : \/ request[e.of].at = "verifying" \/ e.of \in stuck
                     \/ \E g \in guesses : g.of = e.of /\ g.age <= e.age

LoginInv ==
  /\ Bucket(all, MaxAll)
  /\ \A i \in Addresses : Bucket(own[i], MaxOwn)
  /\ own = [i \in Addresses |-> own[i]]
  /\ request \in [Attempts -> Requests]
  /\ guesses \subseteq Entries
  /\ GuessesKnown /\ PlacesKnown
  /\ Login!RetryTrue

\* Each recent guess has a place of its own in the shared window.
LEMMA LoginInvSuffices == LoginInv => Login!LoginBounded
<1>. SUFFICES ASSUME LoginInv PROVE Login!LoginBounded
  OBVIOUS
<1>. USE DEF LoginInv
<1>1. Login!GuessesBounded
  <2> DEFINE recently == {g \in guesses : g.age < Window - 2 * Delay}
             place == [g \in recently |-> CHOOSE e \in all : e.of = g.of]
  <2>1. \A g \in recently : \E e \in all : e.of = g.of
    BY LoginAssumption DEF GuessesKnown, Entries
  <2>2. \A g \in recently : place[g] \in all /\ place[g].of = g.of
    BY <2>1
  <2>3. place \in Injection(recently, all)
    <3>1. place \in [recently -> all]
      BY <2>2
    <3>2. \A g, h \in recently : place[g] = place[h] => g = h
      BY <2>2 DEF GuessesKnown
    <3>. QED BY <3>1, <3>2 DEF Injection, IsInjective
  <2>4. Cardinality(recently) <= Cardinality(all) /\ IsFiniteSet(recently)
    <3>. HIDE DEF place, recently
    <3>. QED BY <2>3, FS_Injection DEF Bucket
  <2>5. Cardinality(recently) \in Nat /\ Cardinality(all) \in Nat /\ Cardinality(all) <= MaxAll
    BY <2>4, FS_CardinalityType DEF Bucket
  <2>6. Cardinality(recently) <= MaxAll
    <3>. HIDE DEF recently
    <3>. QED BY <2>4, <2>5, LoginAssumption
  <2>. QED BY <2>6, LoginCounts DEF Login!GuessesBounded
<1>2. Login!PlacesExplained
  BY DEF PlacesKnown, Login!PlacesExplained
<1>3. Login!BucketsBounded
  BY LoginCounts DEF Bucket, Login!BucketsBounded
<1>. QED BY <1>1, <1>2, <1>3 DEF Login!LoginBounded

LEMMA LoginInit == Login!Init => LoginInv
<1>. SUFFICES ASSUME Login!Init PROVE LoginInv
  OBVIOUS
<1>1. Bucket({}, MaxAll) /\ Bucket({}, MaxOwn)
  BY FS_EmptySet, LoginAssumption DEF Bucket
<1>2. Login!Idle.at = "idle"
  BY DEF Login!Idle
<1>. QED BY <1>1, <1>2 DEF Login!Init, LoginInv, GuessesKnown, PlacesKnown, Login!RetryTrue, Requests

LEMMA ArriveKeeps ==
  ASSUME LoginInv, NEW a \in Attempts, Login!Arrive(a)
  PROVE  LoginInv'
<1>. USE DEF LoginInv
<1> DEFINE member == [of |-> a, age |-> 0]
<1>1. member \in Entries /\ member.age = 0
  BY DEF Entries
<1>2. PICK i \in Addresses, right \in BOOLEAN :
        /\ own' = [own EXCEPT ![i] = Login!Reserved(@, MaxOwn, member)]
        /\ IF Login!Admits(own[i], MaxOwn, member)
             THEN /\ request' \in {request, [request EXCEPT ![a] = [at |-> "reserving", right |-> right, stamp |-> 0]]}
                  /\ UNCHANGED told
             ELSE told' = Login!Refused(own'[i], MaxOwn, 0) /\ UNCHANGED request
  BY DEF Login!Arrive
<1>3. UNCHANGED <<all, guesses, stuck>> /\ request[a] = Login!Idle /\ \A e \in all \cup guesses : e.of # a
  BY DEF Login!Arrive
<1>. HIDE DEF member
<1>4. own' = [j \in Addresses |-> own'[j]] /\ \A j \in Addresses : Bucket(own'[j], MaxOwn)
  <2>1. Bucket(Login!Reserved(own[i], MaxOwn, member), MaxOwn)
    BY <1>1, LoginAssumption, ReserveBounded
  <2>. QED BY <1>2, <2>1
<1>5. CASE /\ request' = [request EXCEPT ![a] = [at |-> "reserving", right |-> right, stamp |-> 0]]
           /\ told' = told
  <2>1. request' = [request EXCEPT ![a] = [at |-> "reserving", right |-> right, stamp |-> 0]] /\ told' = told
    BY <1>5
  <2>2. request' \in [Attempts -> Requests]
    BY <2>1, LoginAssumption DEF Requests
  <2>3. \A b \in Attempts : b # a => request'[b] = request[b]
    BY <2>1
  <2>4. \A g \in guesses \cup all : g.of \in Attempts /\ g.of # a
    BY <1>3 DEF Bucket, Entries
  <2>5. request'[a].at # "verifying"
    BY <2>1
  <2>6. GuessesKnown'
    BY <1>3, <2>3, <2>4 DEF GuessesKnown
  <2>7. PlacesKnown'
    BY <1>3, <2>3, <2>4, <2>5 DEF PlacesKnown
  <2>8. Login!RetryTrue'
    BY <2>1 DEF Login!RetryTrue, Login!Cardinality, Login!IsFiniteSet
  <2>. QED BY <1>3, <1>4, <2>2, <2>6, <2>7, <2>8 DEF Bucket
<1>6. CASE ~Login!Admits(own[i], MaxOwn, member)
  <2>1. told' = Login!Refused(Login!Reserved(own[i], MaxOwn, member), MaxOwn, member.age) /\ request' = request
    BY <1>1, <1>2, <1>6
  <2>2. Cardinality({e \in told'.bucket : e.age + told'.retry < Window}) < told'.max
    BY <1>1, <1>6, <2>1, LoginAssumption, RefusalTrue
  <2>3. Login!RetryTrue'
    BY <2>2, LoginCounts DEF Login!RetryTrue
  <2>. QED BY <1>3, <1>4, <2>1, <2>3 DEF Bucket, GuessesKnown, PlacesKnown
<1>7. CASE request' = request /\ told' = told
  <2>1. Login!RetryTrue'
    BY <1>7 DEF Login!RetryTrue, Login!Cardinality, Login!IsFiniteSet
  <2>. QED BY <1>3, <1>4, <1>7, <2>1 DEF Bucket, GuessesKnown, PlacesKnown
<1>. QED BY <1>2, <1>5, <1>6, <1>7

LEMMA ReserveKeeps ==
  ASSUME LoginInv, NEW a \in Attempts, Login!Reserve(a)
  PROVE  LoginInv'
<1>. USE DEF LoginInv
<1> DEFINE member == [of |-> a, age |-> request[a].stamp]
           kept == Login!Pruned(all, member.age)
<1>1. request[a].at = "reserving" /\ UNCHANGED <<own, guesses, stuck>> /\ all' = Login!Reserved(all, MaxAll, member)
  BY DEF Login!Reserve
<1>2. request[a] \in Requests /\ request[a].stamp \in 0..Delay /\ request[a] # Login!Idle
  BY <1>1 DEF Requests, Login!Idle
<1>3. member \in Entries /\ member.of = a /\ member.age = request[a].stamp /\ member.age \in 0..Delay
  BY <1>2, LoginAssumption DEF Entries
<1>4. IF Login!Admits(all, MaxAll, member)
        THEN request' = [request EXCEPT ![a] = [at |-> "verifying", right |-> @.right, stamp |-> 0]] /\ UNCHANGED told
        ELSE request' = [request EXCEPT ![a] = Login!Idle] /\ told' = Login!Refused(all', MaxAll, member.age)
  BY <1>3 DEF Login!Reserve
<1>5. Bucket(all', MaxAll)
      /\ all' = IF Login!Admits(all, MaxAll, member) THEN kept \cup {member} ELSE kept
  BY <1>1, <1>3, LoginAssumption, ReserveBounded
<1>6. kept \subseteq all /\ \A e \in all : e.age < Window => e \in kept
  <2>1. \A e \in all : e.age \in Nat
    BY DEF Bucket, Entries
  <2>. QED BY <1>3, <2>1, LoginAssumption DEF Login!Pruned
<1>. HIDE DEF kept, member
<1>7. \A g \in guesses : g.of \in Attempts /\ g.of # a /\ g.age \in Nat
  BY <1>2 DEF GuessesKnown, Entries
<1>8. \A e \in all : e.of \in Attempts /\ e.age \in Nat
  BY DEF Bucket, Entries
<1>9. \A b \in Attempts : b # a => request'[b] = request[b]
  BY <1>4
<1>10. \A b \in Attempts : request[b] = Login!Idle \/ request[b].stamp \in 0..Delay
  BY DEF Requests
<1>11. request[a] = [at |-> "reserving", right |-> request[a].right, stamp |-> request[a].stamp] /\ request[a].right \in BOOLEAN
  BY <1>1, <1>2 DEF Requests, Login!Idle
<1>12. request'[a].at = "verifying" => member \in all' /\ request'[a].stamp = 0
  <2>1. CASE Login!Admits(all, MaxAll, member)
    BY <1>4, <1>5, <2>1
  <2>2. CASE ~Login!Admits(all, MaxAll, member)
    BY <1>4, <2>2 DEF Login!Idle
  <2>. QED BY <2>1, <2>2
<1>13. request' \in [Attempts -> Requests] /\ all' \subseteq kept \cup {member}
  <2>1. CASE Login!Admits(all, MaxAll, member)
    <3>1. [at |-> "verifying", right |-> request[a].right, stamp |-> 0] \in Requests
      BY <1>11, LoginAssumption DEF Requests
    <3>. QED BY <1>4, <1>5, <2>1, <3>1
  <2>2. CASE ~Login!Admits(all, MaxAll, member)
    BY <1>4, <1>5, <2>2 DEF Requests
  <2>. QED BY <2>1, <2>2
<1>14. GuessesKnown'
  <2>1. \A g \in guesses : request'[g.of] = Login!Idle
    BY <1>7, <1>9 DEF GuessesKnown
  <2>2. ASSUME NEW g \in guesses, g.age + 2 * Delay < Window
        PROVE  \E e \in all' : e.of = g.of /\ e.age <= g.age + 2 * Delay
    <3>1. PICK e \in all : e.of = g.of /\ e.age <= g.age + 2 * Delay
      BY <2>2 DEF GuessesKnown
    <3>2. e \in kept
      BY <1>6, <1>7, <1>8, <2>2, <3>1, LoginAssumption
    <3>. QED BY <1>5, <3>1, <3>2
  <2>. QED BY <1>1, <2>1, <2>2 DEF GuessesKnown
<1>15. PlacesKnown'
  <2>1. ASSUME NEW b \in Attempts, request'[b].at = "verifying", request'[b].stamp + Delay < Window
        PROVE  \E e \in all' : e.of = b /\ e.age <= request'[b].stamp + Delay
    <3>1. CASE b = a
      BY <1>3, <1>12, <2>1, <3>1, LoginAssumption
    <3>2. CASE b # a
      <4>1. PICK e \in all : e.of = b /\ e.age <= request[b].stamp + Delay
        BY <1>9, <2>1, <3>2 DEF PlacesKnown
      <4>2. request[b].stamp \in 0..Delay /\ request'[b] = request[b]
        BY <1>9, <1>10, <2>1, <3>2 DEF Login!Idle
      <4>3. e \in kept
        BY <1>6, <1>8, <2>1, <4>1, <4>2, LoginAssumption
      <4>. QED BY <1>5, <4>1, <4>2, <4>3
    <3>. QED BY <3>1, <3>2
  <2>2. ASSUME NEW e \in all'
        PROVE  request'[e.of].at = "verifying" \/ e.of \in stuck \/ \E g \in guesses : g.of = e.of /\ g.age <= e.age
    <3>1. CASE e = member /\ Login!Admits(all, MaxAll, member)
      BY <1>3, <1>4, <3>1
    <3>2. CASE e \in kept
      <4>1. e \in all
        BY <1>6, <3>2
      <4>2. request[e.of].at = "verifying" => e.of # a /\ request'[e.of] = request[e.of]
        BY <1>1, <1>8, <1>9, <4>1
      <4>. QED BY <4>1, <4>2 DEF PlacesKnown
    <3>. QED BY <1>5, <3>1, <3>2
  <2>. QED BY <1>1, <2>1, <2>2 DEF PlacesKnown
<1>16. Login!RetryTrue'
  <2>1. CASE Login!Admits(all, MaxAll, member)
    BY <1>4, <2>1 DEF Login!RetryTrue, Login!Cardinality, Login!IsFiniteSet
  <2>2. CASE ~Login!Admits(all, MaxAll, member)
    <3>1. told' = Login!Refused(Login!Reserved(all, MaxAll, member), MaxAll, member.age)
      BY <1>1, <1>4, <2>2
    <3>2. Cardinality({e \in told'.bucket : e.age + told'.retry < Window}) < told'.max
      BY <1>3, <2>2, <3>1, LoginAssumption, RefusalTrue
    <3>. QED BY <3>2, LoginCounts DEF Login!RetryTrue
  <2>. QED BY <2>1, <2>2
<1>. QED BY <1>1, <1>5, <1>13, <1>14, <1>15, <1>16

\* The place may have been taken, whoever waits for the answer is gone.
LEMMA ReserveLostKeeps ==
  ASSUME LoginInv, NEW a \in Attempts, Login!ReserveLost(a)
  PROVE  LoginInv'
<1>. USE DEF LoginInv
<1> DEFINE member == [of |-> a, age |-> request[a].stamp]
           kept == Login!Pruned(all, member.age)
<1>1. request[a].at = "reserving" /\ UNCHANGED <<own, guesses, told>> /\ request' = [request EXCEPT ![a] = Login!Idle]
  BY DEF Login!ReserveLost
<1>2. request[a] \in Requests /\ request[a].stamp \in 0..Delay /\ request[a] # Login!Idle
  BY <1>1 DEF Requests, Login!Idle
<1>3. member \in Entries /\ member.of = a /\ member.age \in 0..Delay
  BY <1>2, LoginAssumption DEF Entries
<1>4. \/ UNCHANGED <<all, stuck>>
      \/ /\ all' = Login!Reserved(all, MaxAll, member)
         /\ stuck' = IF Login!Admits(all, MaxAll, member) THEN stuck \cup {a} ELSE stuck
  BY DEF Login!ReserveLost
<1>5. kept \subseteq all /\ \A e \in all : e.age < Window => e \in kept
  <2>1. \A e \in all : e.age \in Nat
    BY DEF Bucket, Entries
  <2>. QED BY <1>3, <2>1, LoginAssumption DEF Login!Pruned
<1>6. /\ Bucket(all', MaxAll) /\ all' \subseteq all \cup {member}
      /\ \A e \in all : e.age < Window => e \in all'
      /\ stuck \subseteq stuck' /\ (member \in all' /\ member \notin all => a \in stuck')
  <2>1. CASE UNCHANGED <<all, stuck>>
    BY <2>1 DEF Bucket
  <2>2. CASE /\ all' = Login!Reserved(all, MaxAll, member)
             /\ stuck' = IF Login!Admits(all, MaxAll, member) THEN stuck \cup {a} ELSE stuck
    <3>1. Bucket(all', MaxAll)
          /\ all' = IF Login!Admits(all, MaxAll, member) THEN kept \cup {member} ELSE kept
      BY <1>3, <2>2, LoginAssumption, ReserveBounded
    <3>. HIDE DEF kept, member
    <3>. QED BY <1>5, <2>2, <3>1
  <2>. QED BY <1>4, <2>1, <2>2
<1>. HIDE DEF kept, member
<1>7. \A g \in guesses : g.of \in Attempts /\ g.of # a /\ g.age \in Nat
  BY <1>2 DEF GuessesKnown, Entries
<1>8. \A e \in all : e.of \in Attempts /\ e.age \in Nat
  BY DEF Bucket, Entries
<1>9. request'[a] = Login!Idle /\ \A b \in Attempts : b # a => request'[b] = request[b]
  BY <1>1
<1>10. request' \in [Attempts -> Requests] /\ Login!Idle.at # "verifying"
  BY <1>1 DEF Requests, Login!Idle
<1>11. GuessesKnown'
  <2>1. \A g \in guesses : request'[g.of] = Login!Idle
    BY <1>7, <1>9 DEF GuessesKnown
  <2>2. ASSUME NEW g \in guesses, g.age + 2 * Delay < Window
        PROVE  \E e \in all' : e.of = g.of /\ e.age <= g.age + 2 * Delay
    <3>1. PICK e \in all : e.of = g.of /\ e.age <= g.age + 2 * Delay
      BY <2>2 DEF GuessesKnown
    <3>2. e \in all'
      BY <1>6, <1>7, <1>8, <2>2, <3>1, LoginAssumption
    <3>. QED BY <3>1, <3>2
  <2>. QED BY <1>1, <2>1, <2>2 DEF GuessesKnown
<1>12. PlacesKnown'
  <2>1. ASSUME NEW b \in Attempts, request'[b].at = "verifying", request'[b].stamp + Delay < Window
        PROVE  \E e \in all' : e.of = b /\ e.age <= request'[b].stamp + Delay
    <3>1. request'[b] = request[b] /\ request[b].stamp \in 0..Delay
      <4>1. b # a
        BY <1>9, <1>10, <2>1
      <4>2. request'[b] = request[b] /\ request[b] \in Requests /\ request[b].at = "verifying"
        BY <1>9, <2>1, <4>1
      <4>. QED BY <4>2 DEF Requests, Login!Idle
    <3>2. PICK e \in all : e.of = b /\ e.age <= request[b].stamp + Delay
      BY <2>1, <3>1 DEF PlacesKnown
    <3>3. e \in all'
      BY <1>6, <1>8, <2>1, <3>1, <3>2, LoginAssumption
    <3>. QED BY <3>1, <3>2, <3>3
  <2>2. ASSUME NEW e \in all'
        PROVE  request'[e.of].at = "verifying" \/ e.of \in stuck' \/ \E g \in guesses : g.of = e.of /\ g.age <= e.age
    <3>1. CASE e \in all
      <4>1. request[e.of].at = "verifying" => e.of # a /\ request'[e.of] = request[e.of]
        BY <1>1, <1>8, <1>9, <3>1
      <4>. QED BY <1>6, <3>1, <4>1 DEF PlacesKnown
    <3>2. CASE e \notin all
      BY <1>3, <1>6, <3>2
    <3>. QED BY <3>1, <3>2
  <2>. QED BY <1>1, <2>1, <2>2 DEF PlacesKnown
<1>13. Login!RetryTrue'
  BY <1>1 DEF Login!RetryTrue, Login!Cardinality, Login!IsFiniteSet
<1>. QED BY <1>1, <1>6, <1>10, <1>11, <1>12, <1>13

LEMMA VerifyKeeps ==
  ASSUME LoginInv, NEW a \in Attempts, Login!Verify(a)
  PROVE  LoginInv'
<1>. USE DEF LoginInv
<1>1. request[a].at = "verifying" /\ request' = [request EXCEPT ![a] = Login!Idle] /\ UNCHANGED <<own, told>>
  BY DEF Login!Verify
<1>2. request[a] # Login!Idle /\ request[a].stamp \in 0..Delay /\ request' \in [Attempts -> Requests]
  BY <1>1 DEF Requests, Login!Idle
<1>3. \A g \in guesses : g.of \in Attempts /\ g.of # a /\ g.age \in Nat
  BY <1>2 DEF GuessesKnown, Entries
<1>4. \A e \in all : e.of \in Attempts /\ e.age \in Nat
  BY DEF Bucket, Entries
<1>5. request'[a] = Login!Idle /\ \A b \in Attempts : b # a => request'[b] = request[b]
  BY <1>1
<1>6. Login!Idle.at # "verifying"
  BY DEF Login!Idle
<1>7. Login!RetryTrue'
  BY <1>1 DEF Login!RetryTrue, Login!Cardinality, Login!IsFiniteSet
<1>8. CASE all' = {e \in all : e.of # a} /\ UNCHANGED <<stuck, guesses>>
  <2>1. Bucket(all', MaxAll)
    <3>1. all' \in SUBSET all
      BY <1>8
    <3>2. IsFiniteSet(all') /\ Cardinality(all') <= Cardinality(all)
      BY <3>1, FS_Subset DEF Bucket
    <3>3. Cardinality(all') \in Nat /\ Cardinality(all) \in Nat
      BY <3>2, FS_CardinalityType DEF Bucket
    <3>. QED BY <3>1, <3>2, <3>3, LoginAssumption DEF Bucket
  <2>2. GuessesKnown'
    BY <1>3, <1>5, <1>8 DEF GuessesKnown
  <2>3. PlacesKnown'
    BY <1>4, <1>5, <1>6, <1>8 DEF PlacesKnown
  <2>. QED BY <1>1, <1>2, <1>7, <1>8, <2>1, <2>2, <2>3
<1>9. CASE stuck' = stuck \cup {a} /\ UNCHANGED <<all, guesses>>
  BY <1>1, <1>2, <1>3, <1>4, <1>5, <1>6, <1>7, <1>9 DEF GuessesKnown, PlacesKnown, Bucket
<1>10. CASE guesses' = guesses \cup {[of |-> a, age |-> 0]} /\ UNCHANGED <<all, stuck>>
  <2> DEFINE guess == [of |-> a, age |-> 0]
  <2>1. guess \in Entries /\ guess.of = a /\ guess.age = 0 /\ guesses' = guesses \cup {guess}
    BY <1>10 DEF Entries
  <2>. HIDE DEF guess
  <2>2. 0 + 2 * Delay < Window => \E e \in all : e.of = a /\ e.age <= 0 + 2 * Delay
    <3>. SUFFICES ASSUME 2 * Delay < Window PROVE \E e \in all : e.of = a /\ e.age <= 2 * Delay
      BY LoginAssumption
    <3>1. request[a].stamp + Delay < Window /\ request[a].stamp + Delay <= 2 * Delay
      BY <1>2, LoginAssumption
    <3>2. PICK e \in all : e.of = a /\ e.age <= request[a].stamp + Delay
      BY <1>1, <3>1 DEF PlacesKnown
    <3>. QED BY <1>2, <1>4, <3>1, <3>2, LoginAssumption
  <2>3. GuessesKnown'
    <3>1. \A g \in guesses' : request'[g.of] = Login!Idle
      BY <1>3, <1>5, <2>1 DEF GuessesKnown
    <3>2. \A g, h \in guesses' : g.of = h.of => g = h
      BY <1>3, <2>1 DEF GuessesKnown
    <3>3. \A g \in guesses' : g.age + 2 * Delay < Window => \E e \in all' : e.of = g.of /\ e.age <= g.age + 2 * Delay
      BY <1>10, <2>1, <2>2 DEF GuessesKnown
    <3>. QED BY <3>1, <3>2, <3>3 DEF GuessesKnown
  <2>4. PlacesKnown'
    <3>1. \A b \in Attempts : request'[b].at = "verifying" /\ request'[b].stamp + Delay < Window =>
            \E e \in all' : e.of = b /\ e.age <= request'[b].stamp + Delay
      BY <1>5, <1>6, <1>10 DEF PlacesKnown
    <3>2. ASSUME NEW e \in all'
          PROVE  request'[e.of].at = "verifying" \/ e.of \in stuck' \/ \E g \in guesses' : g.of = e.of /\ g.age <= e.age
      <4>1. CASE e.of = a
        BY <1>4, <1>10, <2>1, <4>1
      <4>2. CASE e.of # a
        BY <1>4, <1>5, <1>10, <2>1, <4>2 DEF PlacesKnown
      <4>. QED BY <4>1, <4>2
    <3>. QED BY <3>1, <3>2 DEF PlacesKnown
  <2>. QED BY <1>1, <1>2, <1>7, <1>10, <2>1, <2>3, <2>4 DEF Bucket
<1>. QED BY <1>8, <1>9, <1>10 DEF Login!Verify, Login!Refund

\* A request that ends under the check keeps its place.
LEMMA VerifyLostKeeps ==
  ASSUME LoginInv, NEW a \in Attempts, Login!VerifyLost(a)
  PROVE  LoginInv'
<1>. USE DEF LoginInv
<1>1. /\ request[a].at = "verifying" /\ request' = [request EXCEPT ![a] = Login!Idle]
      /\ stuck' = stuck \cup {a} /\ UNCHANGED <<own, all, guesses, told>>
  BY DEF Login!VerifyLost
<1>2. request[a] # Login!Idle /\ request' \in [Attempts -> Requests]
  BY <1>1 DEF Requests, Login!Idle
<1>3. \A g \in guesses : g.of \in Attempts /\ g.of # a
  BY <1>2 DEF GuessesKnown, Entries
<1>4. \A e \in all : e.of \in Attempts
  BY DEF Bucket, Entries
<1>5. request'[a] = Login!Idle /\ \A b \in Attempts : b # a => request'[b] = request[b]
  BY <1>1
<1>6. Login!Idle.at # "verifying"
  BY DEF Login!Idle
<1>7. Login!RetryTrue'
  BY <1>1 DEF Login!RetryTrue, Login!Cardinality, Login!IsFiniteSet
<1>. QED BY <1>1, <1>2, <1>3, <1>4, <1>5, <1>6, <1>7 DEF GuessesKnown, PlacesKnown, Bucket

LEMMA TickKeeps ==
  ASSUME LoginInv, Login!Tick
  PROVE  LoginInv'
<1>. USE DEF LoginInv
<1>1. /\ own' = [i \in Addresses |-> Login!Older(own[i])] /\ all' = Login!Older(all) /\ guesses' = Login!Older(guesses)
      /\ request' = [a \in Attempts |-> IF request[a] = Login!Idle THEN Login!Idle ELSE [request[a] EXCEPT !.stamp = @ + 1]]
      /\ stuck' = {a \in stuck : \E e \in Login!Older(all) : e.of = a} /\ told' = Login!Silent
      /\ \A a \in Attempts : request[a] # Login!Idle => request[a].stamp < Delay
  BY DEF Login!Tick
<1>2. own' = [i \in Addresses |-> own'[i]] /\ \A i \in Addresses : Bucket(own'[i], MaxOwn)
  BY <1>1, OlderBounded, LoginAssumption
<1>3. Bucket(all', MaxAll)
  BY <1>1, OlderBounded, LoginAssumption
<1>4. /\ guesses' \subseteq Entries
      /\ \A x \in guesses' : \E g \in guesses : x.of = g.of /\ x.age = g.age + 1
      /\ \A g \in guesses : g.age + 1 < Window + Delay => \E x \in guesses' : x.of = g.of /\ x.age = g.age + 1
  BY <1>1, OlderIs
<1>5. /\ \A x \in all' : \E e \in all : x.of = e.of /\ x.age = e.age + 1
      /\ \A e \in all : e.age + 1 < Window + Delay => \E x \in all' : x.of = e.of /\ x.age = e.age + 1
  BY <1>1, OlderIs DEF Bucket
<1>6. \A a \in Attempts : request[a] # Login!Idle =>
        /\ request[a] \in [at : {"reserving", "verifying"}, right : BOOLEAN, stamp : 0..Delay]
        /\ request'[a] = [request[a] EXCEPT !.stamp = @ + 1]
        /\ request'[a] \in Requests /\ request'[a].at = request[a].at
        /\ request'[a].stamp = request[a].stamp + 1 /\ request[a].stamp \in 0..Delay
  BY <1>1, LoginAssumption DEF Requests
<1>7. \A a \in Attempts : request[a] = Login!Idle => request'[a] = Login!Idle
  BY <1>1
<1>8. request' \in [Attempts -> Requests]
  BY <1>1, <1>6, <1>7 DEF Requests
<1>9. \A e \in guesses \cup guesses' \cup all \cup all' : e = [of |-> e.of, age |-> e.age] /\ e.of \in Attempts /\ e.age \in Nat
  BY <1>3, <1>4 DEF Bucket, Entries
<1>10. GuessesKnown'
  <2>1. \A g \in guesses' : request'[g.of] = Login!Idle
    BY <1>4, <1>7, <1>9 DEF GuessesKnown
  <2>2. \A g, h \in guesses' : g.of = h.of => g = h
    <3>. SUFFICES ASSUME NEW g \in guesses', NEW h \in guesses', g.of = h.of PROVE g = h
      OBVIOUS
    <3>1. PICK x \in guesses : g.of = x.of /\ g.age = x.age + 1
      BY <1>4
    <3>2. PICK y \in guesses : h.of = y.of /\ h.age = y.age + 1
      BY <1>4
    <3>3. x = y
      BY <3>1, <3>2 DEF GuessesKnown
    <3>. QED BY <1>9, <3>1, <3>2, <3>3
  <2>3. ASSUME NEW g \in guesses', g.age + 2 * Delay < Window
        PROVE  \E e \in all' : e.of = g.of /\ e.age <= g.age + 2 * Delay
    <3>1. PICK x \in guesses : g.of = x.of /\ g.age = x.age + 1
      BY <1>4
    <3>2. PICK e \in all : e.of = x.of /\ e.age <= x.age + 2 * Delay
      BY <1>9, <2>3, <3>1, LoginAssumption DEF GuessesKnown
    <3>3. e.age + 1 <= g.age + 2 * Delay /\ e.age + 1 < Window + Delay
      BY <1>9, <2>3, <3>1, <3>2, LoginAssumption
    <3>4. PICK y \in all' : y.of = e.of /\ y.age = e.age + 1
      BY <1>5, <3>3
    <3>. QED BY <3>1, <3>2, <3>3, <3>4
  <2>. QED BY <2>1, <2>2, <2>3 DEF GuessesKnown
<1>11. PlacesKnown'
  <2>1. ASSUME NEW b \in Attempts, request'[b].at = "verifying", request'[b].stamp + Delay < Window
        PROVE  \E e \in all' : e.of = b /\ e.age <= request'[b].stamp + Delay
    <3>1. request[b] # Login!Idle
      BY <1>7, <2>1 DEF Login!Idle
    <3>2. request[b].at = "verifying" /\ request'[b].stamp = request[b].stamp + 1 /\ request[b].stamp \in 0..Delay
      BY <1>6, <2>1, <3>1
    <3>3. PICK e \in all : e.of = b /\ e.age <= request[b].stamp + Delay
      BY <2>1, <3>2, LoginAssumption DEF PlacesKnown
    <3>4. e.age + 1 <= request'[b].stamp + Delay /\ e.age + 1 < Window + Delay
      BY <1>9, <2>1, <3>2, <3>3, LoginAssumption
    <3>5. PICK y \in all' : y.of = e.of /\ y.age = e.age + 1
      BY <1>5, <3>4
    <3>. QED BY <3>3, <3>4, <3>5
  <2>2. ASSUME NEW e \in all'
        PROVE  request'[e.of].at = "verifying" \/ e.of \in stuck' \/ \E g \in guesses' : g.of = e.of /\ g.age <= e.age
    <3>1. PICK x \in all : e.of = x.of /\ e.age = x.age + 1
      BY <1>5
    <3>2. CASE request[x.of].at = "verifying"
      <4>1. request[x.of] # Login!Idle
        BY <3>2 DEF Login!Idle
      <4>. QED BY <1>6, <1>9, <3>1, <3>2, <4>1
    <3>3. CASE x.of \in stuck
      BY <1>1, <3>1, <3>3
    <3>4. CASE \E g \in guesses : g.of = x.of /\ g.age <= x.age
      <4>1. PICK g \in guesses : g.of = x.of /\ g.age <= x.age
        BY <3>4
      <4>2. e.age < Window + Delay
        <5>1. PICK f \in all : f.age + 1 < Window + Delay /\ e = [f EXCEPT !.age = @ + 1]
          BY <1>1 DEF Login!Older
        <5>2. e.age = f.age + 1
          BY <1>9, <5>1
        <5>. QED BY <5>1, <5>2
      <4>3. g.age + 1 < Window + Delay
        BY <1>9, <3>1, <4>1, <4>2, LoginAssumption
      <4>4. PICK y \in guesses' : y.of = g.of /\ y.age = g.age + 1
        BY <1>4, <4>3
      <4>. QED BY <1>9, <3>1, <4>1, <4>4
    <3>. QED BY <3>2, <3>3, <3>4 DEF PlacesKnown
  <2>. QED BY <2>1, <2>2 DEF PlacesKnown
<1>12. Login!RetryTrue'
  BY <1>1 DEF Login!RetryTrue
<1>. QED BY <1>2, <1>3, <1>4, <1>8, <1>10, <1>11, <1>12

LEMMA LoginStep == LoginInv /\ [Login!Next]_loginVars => LoginInv'
<1>. SUFFICES ASSUME LoginInv, [Login!Next]_loginVars PROVE LoginInv'
  OBVIOUS
<1>1. CASE UNCHANGED loginVars
  BY <1>1 DEF loginVars, LoginInv, Bucket, GuessesKnown, PlacesKnown, Login!RetryTrue, Login!Cardinality, Login!IsFiniteSet
<1>. QED BY <1>1, ArriveKeeps, ReserveKeeps, ReserveLostKeeps, VerifyKeeps, VerifyLostKeeps, TickKeeps DEF Login!Next

-----------------------------------------------------------------------------
(* Alerts: what the operator hears.                                        *)

LEMMA AlarmSums == \A f : Alarm!SumFunction(f) = SumFunction(f)
  BY DEF Alarm!SumFunction, Alarm!SumFunctionOnSet, Alarm!FoldFunctionOnSet, Alarm!MapThenFoldSet,
         SumFunction, SumFunctionOnSet, FoldFunctionOnSet, MapThenFoldSet

LEMMA AlarmCounts == \A S : Alarm!Cardinality(S) = Cardinality(S)
  BY DEF Alarm!Cardinality, Alarm!IsFiniteSet, Cardinality, IsFiniteSet

CallSlots == Replicas \X AlertCalls
CallStates == {Alarm!NoCall} \cup [at : {"recording", "claiming", "counting"}]
Claims == [age : 0..Interval - 1, by : Replicas \X Nat, granted : BOOLEAN]

\* A call that may still send a message.
Sending(c) == alerts[c].at \in {"claiming", "counting"}
Counting == \E c \in CallSlots : alerts[c].at = "counting"
Sends(r) == \E c \in CallSlots : c[1] = r /\ Sending(c)
Calling(r) == \E c \in CallSlots : c[1] = r /\ alerts[c] # Alarm!NoCall

Tallies == [withheld : Nat, told : Nat, lost : Nat, twice : Nat]

AlarmTypes ==
  /\ key \in 0..Interval /\ shared \in Nat /\ silence \in Nat /\ crashes \in Nat
  /\ tally \in Tallies
  /\ gate \in [Replicas -> [blocked : 0..Interval, suppressed : Nat]]
  /\ alerts \in [CallSlots -> CallStates]
  /\ recent \in Seq(Claims)

\* A process that calls has taken its window; one of its calls sends, at most, and one of
\* all of them holds the window that they share.
WindowsTaken ==
  /\ \A c \in CallSlots : alerts[c] # Alarm!NoCall => gate[c[1]].blocked > 0
  /\ \A c \in CallSlots : Sending(c) => gate[c[1]].blocked = Interval
  /\ \A c, d \in CallSlots : Sending(c) /\ Sending(d) /\ c[1] = d[1] => c = d
  /\ \A c, d \in CallSlots : alerts[c].at = "counting" /\ alerts[d].at = "counting" => c = d
  /\ Counting => key = Interval

\* A claim holds the window of its process, and a granted one that of all, for an interval.
ClaimsHold ==
  /\ \A i \in DOMAIN recent : recent[i].by[2] <= crashes
  /\ \A i \in DOMAIN recent, r \in Replicas : recent[i].by = <<r, crashes>> =>
       recent[i].age + gate[r].blocked >= Interval /\ ~Sends(r)
  /\ \A i \in DOMAIN recent : recent[i].granted => recent[i].age + key >= Interval /\ ~Counting
  /\ \A i, j \in DOMAIN recent : i < j => recent[i].age >= recent[j].age
  /\ Alarm!Spaced

\* How long ago the last message is while a window lasts.
SilenceKept ==
  /\ key > 0 => silence + key <= Interval \/ Counting
  /\ \A r \in Replicas : gate[r].blocked > 0 =>
       silence + gate[r].blocked < 2 * Interval \/ Counting \/ Sends(r)

\* The same while a monitor withholds.
OutageKept ==
  \A r \in Replicas : monitor[r].last \in 0..Interval - 1 =>
    silence < 2 * Interval + monitor[r].last \/ Counting \/ Calling(r)

MonitorKept ==
  /\ monitor \in [Replicas -> [since : {Null} \cup 0..Threshold + 1, last : {Null} \cup 0..Interval]]
  /\ Alarm!NoFalseAlarm

AlarmInv ==
  /\ AlarmTypes /\ WindowsTaken /\ ClaimsHold /\ SilenceKept /\ OutageKept /\ MonitorKept
  /\ Alarm!EachCounted

LEMMA CallStatesAre ==
  /\ Alarm!NoCall.at = "none"
  /\ \A x \in CallStates : x = Alarm!NoCall \/ x.at \in {"recording", "claiming", "counting"}
  /\ \A x \in CallStates : x # Alarm!NoCall => x.at # "none"
  /\ \A k \in {"recording", "claiming", "counting"} : [at |-> k] \in CallStates
  BY DEF CallStates, Alarm!NoCall

LEMMA AlarmInvSuffices == AlarmInv => Alarm!AlertsHeard
<1>. SUFFICES ASSUME AlarmInv PROVE Alarm!AlertsHeard
  OBVIOUS
<1>. USE DEF AlarmInv
<1>1. DOMAIN alerts = CallSlots /\ \A c \in CallSlots : c[1] \in Replicas /\ alerts[c] \in CallStates
  BY DEF AlarmTypes, CallSlots
<1>2. Alarm!NeverSilenced
  <2>. SUFFICES ASSUME NEW c \in CallSlots, alerts[c].at = "recording", ~(\E d \in CallSlots : Sending(d))
                PROVE  silence < 2 * Interval
    BY <1>1 DEF Alarm!NeverSilenced, Sending
  <2>1. gate[c[1]].blocked > 0 /\ gate[c[1]].blocked \in 0..Interval
    BY <1>1, CallStatesAre DEF WindowsTaken, AlarmTypes
  <2>2. ~Counting /\ ~Sends(c[1])
    BY DEF Counting, Sends, Sending
  <2>3. silence + gate[c[1]].blocked < 2 * Interval
    BY <1>1, <2>1, <2>2 DEF SilenceKept
  <2>. QED BY <2>1, <2>3, AlertsAssumption DEF AlarmTypes
<1>3. Alarm!OutageTold
  <2>. SUFFICES ASSUME NEW r \in Replicas, monitor[r].last \in 0..Interval - 1,
                       ~(\E c \in CallSlots : alerts[c] # Alarm!NoCall)
                PROVE  silence < 3 * Interval
    BY <1>1 DEF Alarm!OutageTold
  <2>1. ~Counting /\ ~Calling(r)
    BY CallStatesAre DEF Counting, Calling
  <2>2. silence < 2 * Interval + monitor[r].last
    BY <2>1 DEF OutageKept
  <2>. QED BY <2>2, AlertsAssumption DEF AlarmTypes
<1>. QED BY <1>2, <1>3 DEF Alarm!AlertsHeard, ClaimsHold, MonitorKept

LEMMA AlarmInit == Alarm!Init => AlarmInv
<1>. SUFFICES ASSUME Alarm!Init PROVE AlarmInv
  OBVIOUS
<1>. USE DEF Alarm!Init
<1>1. gate = [r \in Replicas |-> [blocked |-> 0, suppressed |-> 0]] /\ alerts = [c \in CallSlots |-> Alarm!NoCall]
  BY DEF Alarm!Fresh, CallSlots
<1>2. AlarmTypes
  BY <1>1, AlertsAssumption DEF AlarmTypes, CallStates, Tallies, Alarm!Far
<1>3. ~Counting /\ \A c \in CallSlots : ~Sending(c)
  BY <1>1, CallStatesAre DEF Counting, Sending
<1>4. WindowsTaken /\ SilenceKept
  BY <1>1, <1>3, AlertsAssumption DEF WindowsTaken, SilenceKept, Counting
<1>5. ClaimsHold
  BY DEF ClaimsHold, Alarm!Spaced
<1>6. monitor = [r \in Replicas |-> [since |-> Null, last |-> Null]]
  BY DEF Alarm!Healthy
<1>7. MonitorKept /\ OutageKept
  BY <1>6, AlertsAssumption DEF MonitorKept, OutageKept, Alarm!NoFalseAlarm
<1>8. Alarm!EachCounted
  <2> DEFINE kept == [r \in Replicas |-> gate[r].suppressed]
  <2>1. kept \in [Replicas -> {0}]
    BY <1>1
  <2>2. SumFunction(kept) = 0
    <3>. HIDE DEF kept
    <3>. QED BY <2>1, AlertsAssumption, SumIsZero
  <2>3. Alarm!SumFunction(kept) = 0
    BY <2>2, AlarmSums
  <2>. QED BY <2>3 DEF Alarm!EachCounted
<1>. QED BY <1>2, <1>4, <1>5, <1>7, <1>8 DEF AlarmInv

\* The alerts that the processes have counted, after one of them counts anew.
LEMMA KeptChanges ==
  ASSUME AlarmTypes, NEW r \in Replicas, NEW v \in Nat,
         \A q \in Replicas : gate'[q].suppressed = IF q = r THEN v ELSE gate[q].suppressed
  PROVE  LET now == Alarm!SumFunction([q \in Replicas |-> gate[q].suppressed])
             next == Alarm!SumFunction([q \in Replicas |-> gate'[q].suppressed])
         IN now \in Int /\ next = now + v - gate[r].suppressed
<1> DEFINE f == [q \in Replicas |-> gate[q].suppressed]
           g == [q \in Replicas |-> gate'[q].suppressed]
<1>1. f \in [Replicas -> Int] /\ f[r] = gate[r].suppressed
  BY DEF AlarmTypes
<1>2. g = [f EXCEPT ![r] = v]
  OBVIOUS
<1>. HIDE DEF f, g
<1>3. SumFunction([f EXCEPT ![r] = v]) = SumFunction(f) + v - f[r] /\ SumFunction(f) \in Int
  <2>1. v \in Int /\ IsFiniteSet(Replicas)
    BY AlertsAssumption
  <2>. QED BY <1>1, <2>1, SumChanges
<1>. QED BY <1>1, <1>2, <1>3, AlarmSums DEF f, g

LEMMA KeptStays ==
  ASSUME \A q \in Replicas : gate'[q].suppressed = gate[q].suppressed
  PROVE  [q \in Replicas |-> gate'[q].suppressed] = [q \in Replicas |-> gate[q].suppressed]
  OBVIOUS

LEMMA CountedNow ==
  Alarm!EachCounted <=>
    tally.withheld + tally.twice
      = tally.told + tally.lost + shared + Alarm!SumFunction([q \in Replicas |-> gate[q].suppressed])
  BY DEF Alarm!EachCounted

LEMMA CountedNext ==
  Alarm!EachCounted' <=>
    tally'.withheld + tally'.twice
      = tally'.told + tally'.lost + shared' + Alarm!SumFunction([q \in Replicas |-> gate'[q].suppressed])
  BY DEF Alarm!EachCounted, Alarm!SumFunction, Alarm!SumFunctionOnSet, Alarm!FoldFunctionOnSet, Alarm!MapThenFoldSet

LEMMA RecentAre ==
  ASSUME AlarmTypes
  PROVE  \A i \in DOMAIN recent :
           /\ recent[i] = [age |-> recent[i].age, by |-> recent[i].by, granted |-> recent[i].granted]
           /\ recent[i].age \in 0..Interval - 1 /\ recent[i].by \in Replicas \X Nat /\ recent[i].granted \in BOOLEAN
<1>1. \A i \in DOMAIN recent : recent[i] \in Claims
  BY DEF AlarmTypes
<1>. QED BY <1>1 DEF Claims

LEMMA GatesAre ==
  ASSUME AlarmTypes
  PROVE  \A r \in Replicas :
           /\ gate[r] = [blocked |-> gate[r].blocked, suppressed |-> gate[r].suppressed]
           /\ gate[r].blocked \in 0..Interval /\ gate[r].suppressed \in Nat
  BY DEF AlarmTypes

\* A tally with two counts more.
LEMMA TallyGrows ==
  ASSUME NEW t \in Tallies, NEW x \in Nat, NEW y \in Nat
  PROVE  /\ [t EXCEPT !.told = @ + x, !.lost = @ + y]
              = [withheld |-> t.withheld + 0, told |-> t.told + x, lost |-> t.lost + y, twice |-> t.twice + 0]
         /\ [t EXCEPT !.withheld = @ + 1]
              = [withheld |-> t.withheld + 1, told |-> t.told + 0, lost |-> t.lost + 0, twice |-> t.twice + 0]
         /\ [t EXCEPT !.withheld = @ + 1, !.twice = @ + 1]
              = [withheld |-> t.withheld + 1, told |-> t.told + 0, lost |-> t.lost + 0, twice |-> t.twice + 1]
<1>. PICK W, N, L, T \in Nat : t = [withheld |-> W, told |-> N, lost |-> L, twice |-> T]
  BY DEF Tallies
<1>1. t.withheld = W /\ t.told = N /\ t.lost = L /\ t.twice = T /\ W + 0 = W /\ N + 0 = N /\ L + 0 = L /\ T + 0 = T
  OBVIOUS
<1>2. [t EXCEPT !.told = @ + x, !.lost = @ + y] = [withheld |-> W, told |-> N + x, lost |-> L + y, twice |-> T]
  <2> DEFINE u == [withheld |-> W, told |-> N + x, lost |-> L, twice |-> T]
  <2>1. [t EXCEPT !.told = N + x] = u
    OBVIOUS
  <2>2. [u EXCEPT !.lost = L + y] = [withheld |-> W, told |-> N + x, lost |-> L + y, twice |-> T]
    OBVIOUS
  <2>. HIDE DEF u
  <2>. QED BY <1>1, <2>1, <2>2
<1>3. [t EXCEPT !.withheld = @ + 1] = [withheld |-> W + 1, told |-> N, lost |-> L, twice |-> T]
  OBVIOUS
<1>4. [t EXCEPT !.withheld = @ + 1, !.twice = @ + 1] = [withheld |-> W + 1, told |-> N, lost |-> L, twice |-> T + 1]
  <2> DEFINE u == [withheld |-> W + 1, told |-> N, lost |-> L, twice |-> T]
  <2>1. [t EXCEPT !.withheld = W + 1] = u
    OBVIOUS
  <2>2. [u EXCEPT !.twice = T + 1] = [withheld |-> W + 1, told |-> N, lost |-> L, twice |-> T + 1]
    OBVIOUS
  <2>. HIDE DEF u
  <2>. QED BY <1>1, <2>1, <2>2
<1>. QED BY <1>1, <1>2, <1>3, <1>4

Tallied(w, n, g, d) ==
  tally' = [withheld |-> tally.withheld + w, told |-> tally.told + n,
            lost |-> tally.lost + g, twice |-> tally.twice + d]
\* One process counts anew.
Recounted(r, v) == \A q \in Replicas : gate'[q].suppressed = IF q = r THEN v ELSE gate[q].suppressed

\* What is added to the tally is what one process and Redis count more or less.
LEMMA TallyBalances ==
  ASSUME AlarmTypes, Alarm!EachCounted, NEW r \in Replicas, NEW v \in Nat, Recounted(r, v),
         gate[r].suppressed \in Nat, shared' \in Nat,
         NEW w \in Nat, NEW n \in Nat, NEW g \in Nat, NEW d \in Nat, Tallied(w, n, g, d),
         w + d + shared + gate[r].suppressed = n + g + shared' + v
  PROVE  tally' \in Tallies /\ Alarm!EachCounted'
<1> DEFINE now == Alarm!SumFunction([q \in Replicas |-> gate[q].suppressed])
           next == Alarm!SumFunction([q \in Replicas |-> gate'[q].suppressed])
           W == tally.withheld
           T == tally.twice
           N == tally.told
           L == tally.lost
<1>1. now \in Int /\ next = now + v - gate[r].suppressed
  BY KeptChanges DEF Recounted
<1>2. W + T = N + L + shared + now
  BY CountedNow
<1>3. W \in Nat /\ T \in Nat /\ N \in Nat /\ L \in Nat /\ shared \in Nat
  BY DEF AlarmTypes, Tallies
<1>4. (W + w) + (T + d) = (N + n) + (L + g) + shared' + next
  <2>. HIDE DEF now, next, W, T, N, L
  <2>. QED BY <1>1, <1>2, <1>3
<1>5. tally' = [withheld |-> W + w, told |-> N + n, lost |-> L + g, twice |-> T + d]
  BY DEF Tallied
<1>6. tally' \in Tallies
  BY <1>3, <1>5 DEF Tallies
<1>7. tally'.withheld = W + w /\ tally'.told = N + n /\ tally'.lost = L + g /\ tally'.twice = T + d
  BY <1>5
<1>. QED BY <1>4, <1>6, <1>7, CountedNext

\* An alert that begins: counted as withheld, or on its way to Redis.
LEMMA BeginKeeps ==
  ASSUME AlarmInv, NEW c \in CallSlots, alerts[c] = Alarm!NoCall, Alarm!Begin(c),
         UNCHANGED <<key, shared, recent, silence, tally, crashes>>
  PROVE  /\ AlarmTypes' /\ WindowsTaken' /\ ClaimsHold' /\ SilenceKept' /\ Alarm!EachCounted'
         /\ Calling(c[1])' /\ \A r \in Replicas : Calling(r) => Calling(r)'
         /\ Counting => Counting'
<1>. USE DEF AlarmInv
<1>1. c[1] \in Replicas /\ \A d \in CallSlots : d[1] \in Replicas
  BY DEF CallSlots
<1>2. /\ DOMAIN alerts' = CallSlots
      /\ alerts' \in [CallSlots -> CallStates]
      /\ alerts'[c].at \in {"recording", "claiming"} /\ alerts'[c] # Alarm!NoCall
      /\ \A d \in CallSlots : d # c => alerts'[d] = alerts[d]
  <2>1. PICK k \in {"recording", "claiming"} : alerts' = [alerts EXCEPT ![c] = [at |-> k]]
    BY DEF Alarm!Begin
  <2>2. [at |-> k] \in CallStates /\ [at |-> k] # Alarm!NoCall
    BY CallStatesAre
  <2>. QED BY <2>1, <2>2 DEF AlarmTypes
<1>3. \A d \in CallSlots : alerts[d].at = "counting" <=> alerts'[d].at = "counting"
  BY <1>2, CallStatesAre
<1>4. Counting' <=> Counting
  BY <1>3 DEF Counting
<1>5. \A r \in Replicas : gate'[r].suppressed = gate[r].suppressed
  <2>1. gate' = gate \/ gate' = [gate EXCEPT ![c[1]].blocked = Interval]
    BY DEF Alarm!Begin
  <2>2. DOMAIN gate = Replicas
    BY DEF AlarmTypes
  <2>. QED BY <1>1, <2>1, <2>2, GatesAre
<1>6. Alarm!EachCounted'
  BY <1>5, KeptStays, CountedNow, CountedNext
<1>7. Calling(c[1])' /\ \A r \in Replicas : Calling(r) => Calling(r)'
  BY <1>1, <1>2 DEF Calling
<1>8. CASE gate[c[1]].blocked > 0
  <2>1. gate' = gate /\ alerts' = [alerts EXCEPT ![c] = [at |-> "recording"]] /\ alerts'[c].at = "recording"
    BY <1>2, <1>8 DEF Alarm!Begin, AlarmTypes
  <2>2. \A d \in CallSlots : Sending(d)' <=> Sending(d)
    BY <1>2, <2>1, CallStatesAre DEF Sending
  <2>3. \A r \in Replicas : Sends(r)' <=> Sends(r)
    BY <2>2 DEF Sends
  <2>4. AlarmTypes'
    BY <1>2, <2>1 DEF AlarmTypes
  <2>5. WindowsTaken'
    BY <1>1, <1>2, <1>3, <1>4, <1>8, <2>1, <2>2 DEF WindowsTaken
  <2>6. ClaimsHold'
    BY <1>4, <2>1, <2>3 DEF ClaimsHold, Alarm!Spaced
  <2>7. SilenceKept'
    BY <1>4, <2>1, <2>3 DEF SilenceKept
  <2>. QED BY <1>4, <1>6, <1>7, <2>4, <2>5, <2>6, <2>7
<1>9. CASE ~(gate[c[1]].blocked > 0)
  <2>1. /\ alerts' = [alerts EXCEPT ![c] = [at |-> "claiming"]] /\ alerts'[c].at = "claiming"
        /\ gate' = [gate EXCEPT ![c[1]].blocked = Interval]
    BY <1>2, <1>9 DEF Alarm!Begin, AlarmTypes
  <2>2. /\ gate'[c[1]].blocked = Interval /\ \A r \in Replicas : r # c[1] => gate'[r] = gate[r]
        /\ gate' \in [Replicas -> [blocked : 0..Interval, suppressed : Nat]]
    <3>1. DOMAIN gate = Replicas /\ gate'[c[1]] = [gate[c[1]] EXCEPT !.blocked = Interval]
      BY <1>1, <2>1 DEF AlarmTypes
    <3>2. gate'[c[1]] \in [blocked : 0..Interval, suppressed : Nat] /\ gate'[c[1]].blocked = Interval
      BY <1>1, <3>1, GatesAre, AlertsAssumption
    <3>. QED BY <1>1, <2>1, <3>1, <3>2 DEF AlarmTypes
  <2>3. \A d \in CallSlots : d[1] = c[1] => alerts[d] = Alarm!NoCall /\ ~Sending(d)
    BY <1>9, CallStatesAre DEF WindowsTaken, Sending
  <2>4. \A d \in CallSlots : d # c => (Sending(d)' <=> Sending(d))
    BY <1>2 DEF Sending
  <2>5. \A r \in Replicas : r # c[1] => (Sends(r)' <=> Sends(r))
    BY <2>4 DEF Sends
  <2>6. Sends(c[1])'
    BY <2>1 DEF Sends, Sending
  <2>7. AlarmTypes'
    BY <1>2, <2>2 DEF AlarmTypes
  <2>8. WindowsTaken'
    <3>1. \A d \in CallSlots : alerts'[d] # Alarm!NoCall => gate'[d[1]].blocked > 0
      BY <1>1, <1>2, <2>2, AlertsAssumption DEF WindowsTaken
    <3>2. \A d \in CallSlots : Sending(d)' => gate'[d[1]].blocked = Interval
      BY <1>1, <2>2, <2>4 DEF WindowsTaken
    <3>3. \A d, e \in CallSlots : Sending(d)' /\ Sending(e)' /\ d[1] = e[1] => d = e
      BY <2>3, <2>4 DEF WindowsTaken
    <3>. QED BY <1>3, <1>4, <3>1, <3>2, <3>3 DEF WindowsTaken
  <2>9. ClaimsHold'
    <3>1. \A i \in DOMAIN recent : recent[i].by # <<c[1], crashes>>
      <4>1. \A i \in DOMAIN recent : recent[i].age \in 0..Interval - 1
        BY RecentAre
      <4>2. gate[c[1]].blocked = 0
        BY <1>1, <1>9 DEF AlarmTypes
      <4>. QED BY <1>1, <4>1, <4>2, AlertsAssumption DEF ClaimsHold
    <3>2. ASSUME NEW i \in DOMAIN recent, NEW r \in Replicas, recent[i].by = <<r, crashes>>
          PROVE  recent[i].age + gate'[r].blocked >= Interval /\ ~Sends(r)'
      BY <2>2, <2>5, <3>1, <3>2 DEF ClaimsHold
    <3>. QED BY <1>4, <3>2 DEF ClaimsHold, Alarm!Spaced
  <2>10. SilenceKept'
    BY <1>4, <2>2, <2>5, <2>6 DEF SilenceKept
  <2>. QED BY <1>4, <1>6, <1>7, <2>7, <2>8, <2>9, <2>10
<1>. QED BY <1>8, <1>9

LEMMA RaiseKeeps ==
  ASSUME AlarmInv, NEW c \in CallSlots, Alarm!Raise(c)
  PROVE  AlarmInv'
<1>1. alerts[c] = Alarm!NoCall /\ Alarm!Begin(c) /\ UNCHANGED <<key, shared, monitor, recent, silence, tally, crashes>>
  BY DEF Alarm!Raise
<1>2. /\ AlarmTypes' /\ WindowsTaken' /\ ClaimsHold' /\ SilenceKept' /\ Alarm!EachCounted'
      /\ \A r \in Replicas : Calling(r) => Calling(r)'
      /\ Counting => Counting'
  BY <1>1, BeginKeeps
<1>3. OutageKept' /\ MonitorKept'
  BY <1>1, <1>2 DEF AlarmInv, OutageKept, MonitorKept, Alarm!NoFalseAlarm
<1>. QED BY <1>2, <1>3 DEF AlarmInv

\* Redis grants the window, or says that another process has it.
LEMMA ClaimAnswered ==
  ASSUME AlarmInv, NEW c \in CallSlots, alerts[c].at = "claiming",
         alerts' = [alerts EXCEPT ![c] = [at |-> IF key = 0 THEN "counting" ELSE "recording"]],
         key' = IF key = 0 THEN Interval ELSE key,
         UNCHANGED <<shared, gate, monitor, recent, silence, tally, crashes>>
  PROVE  AlarmInv'
<1>. USE DEF AlarmInv
<1>1. c[1] \in Replicas /\ \A d \in CallSlots : d[1] \in Replicas
  BY DEF CallSlots
<1>2. /\ alerts' \in [CallSlots -> CallStates]
      /\ alerts'[c].at = (IF key = 0 THEN "counting" ELSE "recording") /\ alerts'[c] # Alarm!NoCall
      /\ \A d \in CallSlots : d # c => alerts'[d] = alerts[d]
      /\ alerts[c] # Alarm!NoCall
  BY CallStatesAre DEF AlarmTypes
<1>3. AlarmTypes'
  BY <1>2, AlertsAssumption DEF AlarmTypes
<1>4. \A d \in CallSlots : Sending(d)' => Sending(d)
  BY <1>2 DEF Sending
<1>5. Counting => key = Interval /\ key # 0
  BY AlertsAssumption DEF WindowsTaken
<1>6. Counting => Counting'
  <2>. SUFFICES ASSUME Counting PROVE Counting'
    OBVIOUS
  <2>1. PICK d \in CallSlots : alerts[d].at = "counting"
    BY DEF Counting
  <2>2. d # c
    BY <2>1
  <2>. QED BY <1>2, <2>1, <2>2 DEF Counting
<1>7. Counting' => Counting \/ key = 0
  BY <1>2 DEF Counting
<1>8. WindowsTaken'
  <2>1. \A d, e \in CallSlots : alerts'[d].at = "counting" /\ alerts'[e].at = "counting" => d = e
    BY <1>2, <1>5 DEF WindowsTaken, Counting
  <2>2. Counting' => key' = Interval
    BY <1>5, <1>7
  <2>3. \A d \in CallSlots : alerts'[d] # Alarm!NoCall => alerts[d] # Alarm!NoCall
    BY <1>2
  <2>. QED BY <1>4, <2>1, <2>2, <2>3 DEF WindowsTaken
<1>9. ClaimsHold'
  <2>1. \A i \in DOMAIN recent : recent[i].age \in 0..Interval - 1
    BY RecentAre
  <2>2. ASSUME NEW i \in DOMAIN recent, recent[i].granted PROVE recent[i].age + key' >= Interval /\ ~Counting'
    <3>1. recent[i].age + key >= Interval /\ ~Counting
      BY <2>2 DEF ClaimsHold
    <3>2. key # 0
      BY <2>1, <3>1, AlertsAssumption
    <3>. QED BY <1>7, <3>1, <3>2
  <2>3. \A r \in Replicas : Sends(r)' => Sends(r)
    BY <1>4 DEF Sends
  <2>. QED BY <2>2, <2>3 DEF ClaimsHold, Alarm!Spaced
<1>10. SilenceKept'
  <2>1. key = 0 => Counting'
    BY <1>2 DEF Counting
  <2>2. key > 0 => silence + key <= Interval \/ Counting'
    BY <1>6 DEF SilenceKept
  <2>3. ASSUME NEW r \in Replicas, gate[r].blocked > 0, ~Counting', ~Sends(r)'
        PROVE  silence + gate[r].blocked < 2 * Interval
    <3>1. key > 0 /\ silence + key <= Interval
      BY <2>1, <2>2, <2>3 DEF AlarmTypes
    <3>2. gate[r].blocked \in 0..Interval
      BY DEF AlarmTypes
    <3>. QED BY <3>1, <3>2, AlertsAssumption DEF AlarmTypes
  <2>. QED BY <2>1, <2>2, <2>3 DEF SilenceKept
<1>11. OutageKept'
  <2>1. \A r \in Replicas : Calling(r) => Calling(r)'
    BY <1>2 DEF Calling
  <2>. QED BY <1>6, <2>1 DEF OutageKept
<1>12. MonitorKept' /\ Alarm!EachCounted'
  BY DEF MonitorKept, Alarm!NoFalseAlarm, Alarm!EachCounted, Alarm!SumFunction, Alarm!SumFunctionOnSet, Alarm!FoldFunctionOnSet, Alarm!MapThenFoldSet
<1>. QED BY <1>3, <1>8, <1>9, <1>10, <1>11, <1>12

\* A message goes out with the alerts it names.
LEMMA MessageKeeps ==
  ASSUME AlarmInv, NEW c \in CallSlots, Sending(c), NEW named \in Nat, NEW gone \in Nat,
         NEW granted \in BOOLEAN, Alarm!Claimed(c, granted, named, gone), gate' = [gate EXCEPT ![c[1]].suppressed = 0],
         shared' \in Nat, shared' + named + gone = shared + gate[c[1]].suppressed,
         granted => alerts[c].at = "counting" /\ key' = key,
         key' = key \/ (key = 0 /\ key' = Interval),
         UNCHANGED <<monitor, crashes>>
  PROVE  AlarmInv'
<1>. USE DEF AlarmInv
<1> DEFINE e == [age |-> 0, by |-> <<c[1], crashes>>, granted |-> granted]
           n == Len(recent)
<1>1. c[1] \in Replicas /\ \A d \in CallSlots : d[1] \in Replicas
  BY DEF CallSlots
<1>2. /\ alerts' \in [CallSlots -> CallStates] /\ alerts'[c] = Alarm!NoCall
      /\ \A d \in CallSlots : d # c => alerts'[d] = alerts[d]
  BY DEF Alarm!Claimed, AlarmTypes, CallStates
<1>3. tally' = [tally EXCEPT !.told = @ + named, !.lost = @ + gone] /\ silence' = 0 /\ recent' = Append(recent, e)
  BY DEF Alarm!Claimed
<1>4. /\ DOMAIN gate = Replicas
      /\ \A r \in Replicas : gate'[r].blocked = gate[r].blocked
                             /\ gate'[r].suppressed = IF r = c[1] THEN 0 ELSE gate[r].suppressed
      /\ gate' \in [Replicas -> [blocked : 0..Interval, suppressed : Nat]]
  <2>1. DOMAIN gate = Replicas /\ gate'[c[1]] = [gate[c[1]] EXCEPT !.suppressed = 0]
        /\ \A r \in Replicas : r # c[1] => gate'[r] = gate[r]
    BY <1>1 DEF AlarmTypes
  <2>2. gate'[c[1]] = [blocked |-> gate[c[1]].blocked, suppressed |-> 0]
    BY <1>1, <2>1, GatesAre
  <2>. QED BY <1>1, <2>1, <2>2, GatesAre, SMTT(30) DEF AlarmTypes
<1>5. e \in Claims /\ e.age = 0 /\ e.by = <<c[1], crashes>> /\ e.granted = granted /\ e.by[2] = crashes
  BY <1>1, AlertsAssumption, SMTT(30) DEF Claims, AlarmTypes
<1>. HIDE DEF e
<1>6. /\ n \in Nat /\ DOMAIN recent = 1..n /\ DOMAIN recent' = 1..n + 1 /\ recent' \in Seq(Claims)
      /\ recent'[n + 1] = e /\ \A i \in 1..n : recent'[i] = recent[i]
  BY <1>3, <1>5 DEF AlarmTypes
<1>. HIDE DEF n
<1>7. \A d \in CallSlots : (Sending(d)' => Sending(d) /\ d # c) /\ (alerts'[d].at = "counting" => alerts[d].at = "counting" /\ d # c)
  BY <1>2, CallStatesAre DEF Sending
<1>8. Counting' => Counting /\ key = Interval /\ key # 0
  BY <1>7, AlertsAssumption DEF Counting, WindowsTaken
<1>9. \A r \in Replicas : Sends(r)' => Sends(r) /\ r # c[1]
  BY <1>7 DEF Sends, WindowsTaken
<1>10. tally' \in Tallies /\ Alarm!EachCounted'
  <2>1. tally \in Tallies /\ shared \in Nat /\ gate[c[1]].suppressed \in Nat
    BY <1>1, GatesAre DEF AlarmTypes
  <2>2. Tallied(0, named, gone, 0)
    BY <1>3, <2>1, TallyGrows DEF Tallied
  <2>3. 0 + 0 + shared + gate[c[1]].suppressed = named + gone + shared' + 0
    BY <2>1
  <2>4. Recounted(c[1], 0)
    BY <1>4 DEF Recounted
  <2>. QED BY <1>1, <2>1, <2>2, <2>3, <2>4, TallyBalances, 0 \in Nat
<1>11. AlarmTypes'
  <2>1. key' \in 0..Interval /\ silence' \in Nat /\ crashes' \in Nat
    BY <1>3, AlertsAssumption DEF AlarmTypes
  <2>. QED BY <1>2, <1>4, <1>6, <1>10, <2>1 DEF AlarmTypes
<1>12. WindowsTaken'
  BY <1>1, <1>2, <1>4, <1>7, <1>8 DEF WindowsTaken
<1>13. ClaimsHold'
  <2>1. \A i \in 1..n : recent[i].by[2] <= crashes
    BY <1>6 DEF ClaimsHold
  <2>2. ASSUME NEW i \in 1..n + 1 PROVE recent'[i].by[2] <= crashes
    <3>1. CASE i \in 1..n
      BY <1>6, <2>1, <3>1
    <3>2. CASE i = n + 1
      <4>1. crashes <= crashes
        BY DEF AlarmTypes
      <4>. QED BY <1>5, <1>6, <3>2, <4>1
    <3>. QED BY <1>6, <3>1, <3>2
  <2>3. ASSUME NEW i \in 1..n + 1, NEW r \in Replicas, recent'[i].by = <<r, crashes>>
        PROVE  recent'[i].age + gate'[r].blocked >= Interval /\ ~Sends(r)'
    <3>1. CASE i \in 1..n
      <4>1. recent[i].by = <<r, crashes>> /\ recent'[i].age = recent[i].age
        BY <1>6, <2>3, <3>1
      <4>2. recent[i].age + gate[r].blocked >= Interval /\ ~Sends(r)
        BY <1>6, <3>1, <4>1 DEF ClaimsHold
      <4>. QED BY <1>4, <1>9, <4>1, <4>2
    <3>2. CASE i = n + 1
      <4>1. r = c[1]
        BY <1>5, <1>6, <2>3, <3>2
      <4>2. gate[r].blocked = Interval
        BY <4>1 DEF WindowsTaken
      <4>. QED BY <1>1, <1>4, <1>5, <1>6, <1>9, <3>2, <4>1, <4>2, AlertsAssumption
    <3>. QED BY <1>6, <3>1, <3>2
  <2>4. ASSUME NEW i \in 1..n + 1, recent'[i].granted
        PROVE  recent'[i].age + key' >= Interval /\ ~Counting'
    <3>1. CASE i \in 1..n
      <4>1. recent[i].age + key >= Interval /\ ~Counting /\ recent[i].age \in 0..Interval - 1
        BY <1>6, <2>4, <3>1, RecentAre DEF ClaimsHold
      <4>2. key' >= key /\ key' \in 0..Interval /\ key \in 0..Interval
        BY <1>11, AlertsAssumption, SMTT(30) DEF AlarmTypes
      <4>3. recent[i].age + key' >= Interval
        BY <4>1, <4>2, AlertsAssumption
      <4>. QED BY <1>6, <1>8, <3>1, <4>1, <4>3
    <3>2. CASE i = n + 1
      <4>1. alerts[c].at = "counting" /\ key' = key
        BY <1>5, <1>6, <2>4, <3>2
      <4>2. key = Interval
        BY <4>1 DEF WindowsTaken, Counting
      <4>3. ~Counting'
        BY <1>7, <4>1 DEF Counting, WindowsTaken
      <4>. QED BY <1>5, <1>6, <3>2, <4>1, <4>2, <4>3, AlertsAssumption
    <3>. QED BY <1>6, <3>1, <3>2
  <2>5. \A i, j \in 1..n + 1 : i < j => recent'[i].age >= recent'[j].age
    <3>1. \A i, j \in 1..n : i < j => recent[i].age >= recent[j].age
      BY <1>6 DEF ClaimsHold
    <3>2. \A i \in 1..n : recent[i].age >= 0
      BY <1>6, RecentAre
    <3>. QED BY <1>5, <1>6, <3>1, <3>2
  <2>6. Alarm!Spaced'
    <3>1. \A i \in 1..n : recent[i].by # e.by /\ ~(recent[i].granted /\ e.granted)
      <4>. SUFFICES ASSUME NEW i \in 1..n PROVE recent[i].by # e.by /\ ~(recent[i].granted /\ e.granted)
        OBVIOUS
      <4>1. recent[i].by # <<c[1], crashes>>
        BY <1>1, <1>6 DEF ClaimsHold, Sends
      <4>2. ~(recent[i].granted /\ granted)
        BY <1>6 DEF ClaimsHold, Counting
      <4>. QED BY <1>5, <4>1, <4>2
    <3>2. \A i, j \in 1..n : i # j => recent[i].by # recent[j].by /\ ~(recent[i].granted /\ recent[j].granted)
      BY <1>6 DEF ClaimsHold, Alarm!Spaced
    <3>3. \A i \in 1..n + 1 : i \in 1..n \/ i = n + 1
      BY <1>6
    <3>. QED BY <1>6, <3>1, <3>2, <3>3 DEF Alarm!Spaced
  <2>. QED BY <1>6, <2>2, <2>3, <2>4, <2>5, <2>6 DEF ClaimsHold
<1>14. SilenceKept' /\ OutageKept'
  <2>1. \A r \in Replicas : gate'[r].blocked \in 0..Interval
    BY <1>4, GatesAre
  <2>2. key' \in 0..Interval
    BY <1>11 DEF AlarmTypes
  <2>3. SilenceKept'
    BY <1>3, <2>1, <2>2, AlertsAssumption DEF SilenceKept
  <2>. QED BY <1>3, <2>3, AlertsAssumption DEF OutageKept
<1>15. MonitorKept'
  BY DEF MonitorKept, Alarm!NoFalseAlarm
<1>. QED BY <1>10, <1>11, <1>12, <1>13, <1>14, <1>15

LEMMA ClaimKeeps ==
  ASSUME AlarmInv, NEW c \in CallSlots, Alarm!Claim(c)
  PROVE  AlarmInv'
<1>1. alerts[c].at = "claiming" /\ Sending(c) /\ UNCHANGED <<shared, monitor, crashes>>
  BY DEF Alarm!Claim, Sending
<1>2. CASE /\ alerts' = [alerts EXCEPT ![c] = [at |-> IF key = 0 THEN "counting" ELSE "recording"]]
           /\ key' = IF key = 0 THEN Interval ELSE key
           /\ UNCHANGED <<gate, recent, silence, tally>>
  BY <1>1, <1>2, ClaimAnswered
<1>3. CASE /\ key' \in {key} \cup (IF key = 0 THEN {Interval} ELSE {})
           /\ Alarm!Claimed(c, FALSE, gate[c[1]].suppressed, 0)
           /\ gate' = [gate EXCEPT ![c[1]].suppressed = 0]
  <2>1. c[1] \in Replicas /\ gate[c[1]].suppressed \in Nat /\ shared \in Nat
    BY GatesAre DEF CallSlots, AlarmInv, AlarmTypes
  <2>2. key' = key \/ (key = 0 /\ key' = Interval)
    BY <1>3
  <2>3. shared' \in Nat /\ shared' + gate[c[1]].suppressed + 0 = shared + gate[c[1]].suppressed /\ 0 \in Nat
    BY <1>1, <2>1
  <2>. QED BY <1>1, <1>3, <2>1, <2>2, <2>3, MessageKeeps
<1>. QED BY <1>2, <1>3 DEF Alarm!Claim

LEMMA CountKeeps ==
  ASSUME AlarmInv, NEW c \in CallSlots, Alarm!Count(c)
  PROVE  AlarmInv'
<1>1. alerts[c].at = "counting" /\ Sending(c) /\ UNCHANGED <<key, monitor, crashes>>
      /\ gate' = [gate EXCEPT ![c[1]].suppressed = 0]
  BY DEF Alarm!Count, Sending
<1>2. c[1] \in Replicas /\ gate[c[1]].suppressed \in Nat /\ shared \in Nat
  BY GatesAre DEF CallSlots, AlarmInv, AlarmTypes
<1>3. CASE Alarm!Claimed(c, TRUE, shared + gate[c[1]].suppressed, 0) /\ shared' = 0
  <2>1. shared + gate[c[1]].suppressed \in Nat /\ 0 \in Nat
        /\ 0 + (shared + gate[c[1]].suppressed) + 0 = shared + gate[c[1]].suppressed
    BY <1>2
  <2>. QED BY <1>1, <1>3, <2>1, MessageKeeps
<1>4. CASE Alarm!Claimed(c, TRUE, gate[c[1]].suppressed, 0) /\ UNCHANGED shared
  <2>1. shared' + gate[c[1]].suppressed + 0 = shared + gate[c[1]].suppressed /\ shared' \in Nat /\ 0 \in Nat
    BY <1>2, <1>4
  <2>. QED BY <1>1, <1>2, <1>4, <2>1, MessageKeeps
<1>5. CASE Alarm!Claimed(c, TRUE, gate[c[1]].suppressed, shared) /\ shared' = 0
  <2>1. 0 + gate[c[1]].suppressed + shared = shared + gate[c[1]].suppressed /\ 0 \in Nat
    BY <1>2
  <2>. QED BY <1>1, <1>2, <1>5, <2>1, MessageKeeps
<1>. QED BY <1>3, <1>4, <1>5 DEF Alarm!Count

LEMMA RecordKeeps ==
  ASSUME AlarmInv, NEW c \in CallSlots, Alarm!Record(c)
  PROVE  AlarmInv'
<1>. USE DEF AlarmInv
<1>1. /\ alerts[c].at = "recording" /\ alerts' = [alerts EXCEPT ![c] = Alarm!NoCall]
      /\ UNCHANGED <<key, monitor, recent, silence, crashes>>
  BY DEF Alarm!Record
<1>2. c[1] \in Replicas /\ \A d \in CallSlots : d[1] \in Replicas
  BY DEF CallSlots
<1>3. /\ alerts' \in [CallSlots -> CallStates] /\ alerts'[c] = Alarm!NoCall
      /\ \A d \in CallSlots : d # c => alerts'[d] = alerts[d]
  BY <1>1 DEF AlarmTypes, CallStates
<1>4. \A d \in CallSlots : (Sending(d)' <=> Sending(d)) /\ (alerts'[d].at = "counting" <=> alerts[d].at = "counting")
  BY <1>1, <1>3, CallStatesAre DEF Sending
<1>5. (Counting' <=> Counting) /\ \A r \in Replicas : Sends(r)' <=> Sends(r)
  BY <1>4 DEF Counting, Sends
<1>6. /\ gate' \in [Replicas -> [blocked : 0..Interval, suppressed : Nat]] /\ shared' \in Nat
      /\ tally' \in Tallies
      /\ \A r \in Replicas : gate'[r].blocked = gate[r].blocked
      /\ Alarm!EachCounted'
  <2> DEFINE mine == gate[c[1]].suppressed
  <2>1. CASE UNCHANGED <<shared, gate, tally>>
    BY <2>1, CountedNow, CountedNext, KeptStays DEF AlarmTypes
  <2>2. tally \in Tallies /\ shared \in Nat /\ mine \in Nat /\ mine + 1 \in Nat
    BY <1>2, GatesAre DEF AlarmTypes
  <2>3. ASSUME tally' = [tally EXCEPT !.withheld = @ + 1] PROVE Tallied(1, 0, 0, 0)
    BY <2>2, <2>3, TallyGrows, 0 \in Nat DEF Tallied
  <2>4. ASSUME gate' = [gate EXCEPT ![c[1]].suppressed = @ + 1]
        PROVE  /\ \A r \in Replicas : gate'[r].blocked = gate[r].blocked
               /\ Recounted(c[1], mine + 1)
               /\ gate' \in [Replicas -> [blocked : 0..Interval, suppressed : Nat]]
    <3>1. DOMAIN gate = Replicas /\ gate'[c[1]] = [gate[c[1]] EXCEPT !.suppressed = @ + 1]
          /\ \A r \in Replicas : r # c[1] => gate'[r] = gate[r]
      BY <1>2, <2>4 DEF AlarmTypes
    <3>2. gate'[c[1]] = [blocked |-> gate[c[1]].blocked, suppressed |-> mine + 1]
      BY <1>2, <3>1, GatesAre
    <3>. QED BY <1>2, <2>2, <2>4, <3>1, <3>2, GatesAre DEF AlarmTypes, Recounted
  <2>5. CASE tally' = [tally EXCEPT !.withheld = @ + 1] /\ shared' = shared + 1 /\ UNCHANGED gate
    <3>1. /\ Recounted(c[1], mine) /\ Tallied(1, 0, 0, 0)
          /\ shared' \in Nat /\ 1 + 0 + shared + mine = 0 + 0 + shared' + mine
      BY <2>2, <2>3, <2>5 DEF Recounted
    <3>. QED BY <1>2, <2>2, <2>5, <3>1, TallyBalances, 0 \in Nat, 1 \in Nat DEF AlarmTypes
  <2>6. CASE tally' = [tally EXCEPT !.withheld = @ + 1] /\ gate' = [gate EXCEPT ![c[1]].suppressed = @ + 1] /\ UNCHANGED shared
    <3>1. Tallied(1, 0, 0, 0) /\ shared' \in Nat /\ 1 + 0 + shared + mine = 0 + 0 + shared' + (mine + 1)
      BY <2>2, <2>3, <2>6
    <3>. QED BY <1>2, <2>2, <2>4, <2>6, <3>1, TallyBalances, 0 \in Nat, 1 \in Nat
  <2>7. CASE /\ tally' = [tally EXCEPT !.withheld = @ + 1, !.twice = @ + 1] /\ shared' = shared + 1
             /\ gate' = [gate EXCEPT ![c[1]].suppressed = @ + 1]
    <3>1. Tallied(1, 0, 0, 1)
      BY <2>2, <2>7, TallyGrows, 0 \in Nat DEF Tallied
    <3>2. shared' \in Nat /\ 1 + 1 + shared + mine = 0 + 0 + shared' + (mine + 1)
      BY <2>2, <2>7
    <3>. QED BY <1>2, <2>2, <2>4, <2>7, <3>1, <3>2, TallyBalances, 0 \in Nat, 1 \in Nat
  <2>. QED BY <2>1, <2>5, <2>6, <2>7 DEF Alarm!Record
<1>7. AlarmTypes'
  BY <1>1, <1>3, <1>6 DEF AlarmTypes
<1>8. WindowsTaken'
  BY <1>1, <1>2, <1>3, <1>4, <1>5, <1>6 DEF WindowsTaken
<1>9. ClaimsHold'
  BY <1>1, <1>5, <1>6 DEF ClaimsHold, Alarm!Spaced
<1>10. SilenceKept'
  BY <1>1, <1>5, <1>6 DEF SilenceKept
<1>11. OutageKept'
  <2>. SUFFICES ASSUME NEW r \in Replicas, monitor[r].last \in 0..Interval - 1, ~Counting, ~Calling(r)'
                PROVE  silence < 2 * Interval + monitor[r].last
    BY <1>1, <1>5 DEF OutageKept
  <2>1. CASE ~Calling(r)
    BY <2>1 DEF OutageKept
  <2>2. CASE Calling(r)
    <3>1. r = c[1]
      BY <1>3, <2>2 DEF Calling
    <3>2. ~Sends(r)
      <4>1. \A d \in CallSlots : Sending(d) => alerts'[d] # Alarm!NoCall
        BY <1>4, CallStatesAre DEF Sending
      <4>. QED BY <4>1 DEF Sends, Calling
    <3>3. gate[r].blocked > 0 /\ gate[r].blocked \in 0..Interval
      BY <1>1, <1>2, <3>1, CallStatesAre, GatesAre DEF WindowsTaken
    <3>4. silence + gate[r].blocked < 2 * Interval
      BY <3>2, <3>3 DEF SilenceKept
    <3>. QED BY <3>3, <3>4, AlertsAssumption DEF AlarmTypes
  <2>. QED BY <2>1, <2>2
<1>12. MonitorKept'
  BY <1>1 DEF MonitorKept, Alarm!NoFalseAlarm
<1>. QED BY <1>6, <1>7, <1>8, <1>9, <1>10, <1>11, <1>12

LEMMA CheckKeeps ==
  ASSUME AlarmInv, NEW r \in Replicas, Alarm!Check(r)
  PROVE  AlarmInv'
<1>. USE DEF AlarmInv
<1> DEFINE since == IF monitor[r].since = Null THEN 0 ELSE monitor[r].since
           m == [monitor[r] EXCEPT !.since = IF @ = Null THEN 0 ELSE @]
<1>1. /\ \A q \in Replicas : /\ monitor[q] = [since |-> monitor[q].since, last |-> monitor[q].last]
                             /\ monitor[q].since \in {Null} \cup 0..Threshold + 1 /\ monitor[q].last \in {Null} \cup 0..Interval
                             /\ monitor[q].last # Null => monitor[q].since = Threshold + 1
      /\ DOMAIN monitor = Replicas
  BY DEF MonitorKept, Alarm!NoFalseAlarm
<1>2. m = [since |-> since, last |-> monitor[r].last] /\ since \in 0..Threshold + 1
      /\ (monitor[r].last # Null => since = Threshold + 1)
  BY <1>1, AlertsAssumption
<1>. HIDE DEF m, since
<1>3. UNCHANGED <<key, shared, recent, silence, tally, crashes>>
  BY DEF Alarm!Check
<1>4. ASSUME NEW s \in {Null} \cup 0..Threshold + 1, NEW l \in {Null} \cup 0..Interval, l # Null => s = Threshold + 1,
             monitor' = [monitor EXCEPT ![r] = [since |-> s, last |-> l]]
      PROVE  MonitorKept' /\ monitor'[r].last = l /\ \A q \in Replicas : q # r => monitor'[q] = monitor[q]
  <2>1. monitor'[r] = [since |-> s, last |-> l] /\ \A q \in Replicas : q # r => monitor'[q] = monitor[q]
    BY <1>1, <1>4
  <2>2. monitor' \in [Replicas -> [since : {Null} \cup 0..Threshold + 1, last : {Null} \cup 0..Interval]]
    BY <1>4 DEF MonitorKept
  <2>3. Alarm!NoFalseAlarm'
    BY <1>1, <1>4, <2>1 DEF Alarm!NoFalseAlarm
  <2>. QED BY <2>1, <2>2, <2>3 DEF MonitorKept
<1>5. ASSUME UNCHANGED <<gate, alerts>>
      PROVE  AlarmTypes' /\ WindowsTaken' /\ ClaimsHold' /\ SilenceKept' /\ Alarm!EachCounted'
             /\ (Counting' <=> Counting) /\ \A q \in Replicas : Calling(q)' <=> Calling(q)
  <2>1. AlarmTypes' /\ WindowsTaken' /\ ClaimsHold' /\ SilenceKept'
    BY <1>3, <1>5 DEF AlarmTypes, WindowsTaken, ClaimsHold, SilenceKept, Alarm!Spaced, Counting, Sends, Sending
  <2>2. Alarm!EachCounted'
    BY <1>3, <1>5, CountedNow, CountedNext
  <2>3. (Counting' <=> Counting) /\ \A q \in Replicas : Calling(q)' <=> Calling(q)
    BY <1>5 DEF Counting, Calling
  <2>. QED BY <2>1, <2>2, <2>3
<1>6. CASE monitor' = [monitor EXCEPT ![r] = Alarm!Healthy] /\ UNCHANGED <<gate, alerts>>
  <2>1. MonitorKept' /\ monitor'[r].last = Null /\ \A q \in Replicas : q # r => monitor'[q] = monitor[q]
    BY <1>4, <1>6 DEF Alarm!Healthy
  <2>2. Null \notin 0..Interval - 1
    BY AlertsAssumption
  <2>3. OutageKept'
    BY <1>3, <1>5, <1>6, <2>1, <2>2 DEF OutageKept
  <2>. QED BY <1>5, <1>6, <2>1, <2>3
<1>7. CASE monitor' = [monitor EXCEPT ![r] = m] /\ UNCHANGED <<gate, alerts>>
  <2>1. MonitorKept' /\ monitor'[r].last = monitor[r].last /\ \A q \in Replicas : q # r => monitor'[q] = monitor[q]
    BY <1>1, <1>2, <1>4, <1>7
  <2>2. OutageKept'
    BY <1>3, <1>5, <1>7, <2>1 DEF OutageKept
  <2>. QED BY <1>5, <1>7, <2>1, <2>2
<1>8. CASE /\ Alarm!Alarming(m)
           /\ monitor' = [monitor EXCEPT ![r] = [m EXCEPT !.last = 0]]
           /\ \E s \in AlertCalls : alerts[<<r, s>>] = Alarm!NoCall /\ Alarm!Begin(<<r, s>>)
  <2>1. PICK c \in CallSlots : c[1] = r /\ alerts[c] = Alarm!NoCall /\ Alarm!Begin(c)
    <3>1. PICK s \in AlertCalls : alerts[<<r, s>>] = Alarm!NoCall /\ Alarm!Begin(<<r, s>>)
      BY <1>8
    <3>. QED BY <3>1 DEF CallSlots
  <2>2. /\ AlarmTypes' /\ WindowsTaken' /\ ClaimsHold' /\ SilenceKept' /\ Alarm!EachCounted'
        /\ Calling(r)' /\ \A q \in Replicas : Calling(q) => Calling(q)'
        /\ Counting => Counting'
    BY <1>3, <2>1, BeginKeeps
  <2>3. since = Threshold + 1 /\ [m EXCEPT !.last = 0] = [since |-> since, last |-> 0]
    <3>1. since > Threshold
      BY <1>2, <1>8 DEF Alarm!Alarming
    <3>. QED BY <1>2, <3>1, AlertsAssumption
  <2>4. 0 \in {Null} \cup 0..Interval /\ since \in {Null} \cup 0..Threshold + 1
    BY <1>2, AlertsAssumption
  <2>5. MonitorKept' /\ \A q \in Replicas : q # r => monitor'[q] = monitor[q]
    BY <1>4, <1>8, <2>3, <2>4
  <2>6. OutageKept'
    BY <1>3, <2>2, <2>5 DEF OutageKept
  <2>. QED BY <2>2, <2>5, <2>6
<1>. QED BY <1>6, <1>7, <1>8 DEF Alarm!Check, m

LEMMA RestartKeeps ==
  ASSUME AlarmInv, NEW r \in Replicas, Alarm!Restart(r)
  PROVE  AlarmInv'
<1>. USE DEF AlarmInv
<1>1. /\ crashes' = crashes + 1 /\ gate' = [gate EXCEPT ![r] = [blocked |-> 0, suppressed |-> 0]]
      /\ tally' = [tally EXCEPT !.lost = @ + gate[r].suppressed + (shared - shared')]
      /\ shared' = shared \/ shared' = 0
      /\ monitor' = [monitor EXCEPT ![r] = [since |-> Null, last |-> Null]]
      /\ alerts' = [c \in CallSlots |-> IF c[1] = r THEN Alarm!NoCall ELSE alerts[c]]
      /\ silence' = (IF \E s \in AlertCalls : alerts[<<r, s>>].at = "counting" THEN 0 ELSE silence)
      /\ UNCHANGED <<key, recent>>
  BY DEF Alarm!Restart, Alarm!Fresh, Alarm!Healthy, AlarmTypes
<1>2. \A d \in CallSlots : d[1] \in Replicas
  BY DEF CallSlots
<1>3. /\ alerts' \in [CallSlots -> CallStates]
      /\ \A d \in CallSlots : d[1] = r => alerts'[d] = Alarm!NoCall /\ ~Sending(d)' /\ alerts'[d].at # "counting"
      /\ \A d \in CallSlots : d[1] # r => alerts'[d] = alerts[d] /\ (Sending(d)' <=> Sending(d))
  BY <1>1, CallStatesAre DEF AlarmTypes, CallStates, Sending
<1>4. /\ DOMAIN gate = Replicas
      /\ gate'[r] = [blocked |-> 0, suppressed |-> 0]
      /\ \A q \in Replicas : q # r => gate'[q] = gate[q]
      /\ gate' \in [Replicas -> [blocked : 0..Interval, suppressed : Nat]]
  BY <1>1, AlertsAssumption DEF AlarmTypes
<1>5. /\ monitor'[r] = [since |-> Null, last |-> Null]
      /\ \A q \in Replicas : q # r => monitor'[q] = monitor[q]
      /\ MonitorKept'
  <2>1. monitor'[r] = [since |-> Null, last |-> Null] /\ \A q \in Replicas : q # r => monitor'[q] = monitor[q]
    BY <1>1 DEF MonitorKept
  <2>2. monitor' \in [Replicas -> [since : {Null} \cup 0..Threshold + 1, last : {Null} \cup 0..Interval]]
    BY <1>1 DEF MonitorKept
  <2>3. Alarm!NoFalseAlarm'
    BY <2>1 DEF MonitorKept, Alarm!NoFalseAlarm
  <2>. QED BY <2>1, <2>2, <2>3 DEF MonitorKept
<1>6. tally' \in Tallies /\ Alarm!EachCounted' /\ shared' \in Nat
  <2> DEFINE g == gate[r].suppressed + (shared - shared')
  <2>1. tally = [withheld |-> tally.withheld, told |-> tally.told, lost |-> tally.lost, twice |-> tally.twice]
        /\ tally.withheld \in Nat /\ tally.told \in Nat /\ tally.lost \in Nat /\ tally.twice \in Nat
        /\ shared \in Nat /\ gate[r].suppressed \in Nat
    BY GatesAre DEF AlarmTypes, Tallies
  <2>2. shared' \in Nat /\ g \in Nat
    BY <1>1, <2>1
  <2>3. Tallied(0, 0, g, 0)
    <3>1. tally.lost + gate[r].suppressed + (shared - shared') = tally.lost + g
      BY <2>1, <2>2
    <3>2. tally' = [tally EXCEPT !.lost = tally.lost + g]
      BY <1>1, <3>1
    <3>. HIDE DEF g
    <3>. QED BY <2>1, <3>2 DEF Tallied
  <2>4. 0 + 0 + shared + gate[r].suppressed = 0 + g + shared' + 0
    BY <2>1, <2>2
  <2>5. Recounted(r, 0)
    BY <1>4 DEF Recounted
  <2>. HIDE DEF g
  <2>. QED BY <2>1, <2>2, <2>3, <2>4, <2>5, TallyBalances, 0 \in Nat
<1>7. silence' \in Nat /\ silence' <= silence
  BY <1>1 DEF AlarmTypes
<1>8. AlarmTypes'
  BY <1>1, <1>3, <1>4, <1>6, <1>7 DEF AlarmTypes
<1>9. Counting' => Counting
  BY <1>3 DEF Counting
<1>10. WindowsTaken'
  BY <1>1, <1>2, <1>3, <1>4, <1>9 DEF WindowsTaken
<1>11. Counting => Counting' \/ silence' = 0
  <2>. SUFFICES ASSUME Counting, ~Counting' PROVE silence' = 0
    OBVIOUS
  <2>1. PICK d \in CallSlots : alerts[d].at = "counting"
    BY DEF Counting
  <2>2. d[1] = r
    BY <1>3, <2>1 DEF Counting
  <2>3. PICK s \in AlertCalls : d = <<r, s>>
    BY <2>2 DEF CallSlots
  <2>. QED BY <1>1, <2>1, <2>3
<1>12. ClaimsHold'
  <2>1. \A i \in DOMAIN recent : recent[i].by[2] <= crashes /\ recent[i].by \in Replicas \X Nat
    BY RecentAre DEF ClaimsHold
  <2>2. \A i \in DOMAIN recent, q \in Replicas : recent[i].by # <<q, crashes + 1>>
    <3>. SUFFICES ASSUME NEW i \in DOMAIN recent, NEW q \in Replicas, recent[i].by = <<q, crashes + 1>> PROVE FALSE
      OBVIOUS
    <3>1. recent[i].by[2] = crashes + 1
      OBVIOUS
    <3>. QED BY <2>1, <3>1 DEF AlarmTypes
  <2>3. \A i \in DOMAIN recent : recent[i].by[2] <= crashes + 1
    BY <2>1 DEF AlarmTypes
  <2>. QED BY <1>1, <1>9, <2>2, <2>3 DEF ClaimsHold, Alarm!Spaced
<1>13. SilenceKept'
  <2>1. ASSUME key > 0, ~Counting' PROVE silence' + key <= Interval
    <3>1. key \in 0..Interval /\ silence \in Nat
      BY DEF AlarmTypes
    <3>2. CASE Counting
      BY <1>11, <2>1, <3>1, <3>2, AlertsAssumption
    <3>3. CASE ~Counting
      <4>1. silence + key <= Interval
        BY <2>1, <3>3 DEF SilenceKept
      <4>2. \A s \in Nat : s <= silence => s + key <= Interval
        BY <3>1, <4>1, AlertsAssumption
      <4>. QED BY <1>7, <4>2
    <3>. QED BY <3>2, <3>3
  <2>2. ASSUME NEW q \in Replicas, gate'[q].blocked > 0, ~Counting', ~Sends(q)'
        PROVE  silence' + gate'[q].blocked < 2 * Interval
    <3>1. q # r /\ gate'[q] = gate[q] /\ gate[q].blocked \in 0..Interval
      BY <1>4, <2>2, GatesAre
    <3>2. ~Sends(q)
      BY <1>3, <2>2, <3>1 DEF Sends
    <3>. QED BY <1>7, <1>11, <2>2, <3>1, <3>2, AlertsAssumption DEF SilenceKept, AlarmTypes
  <2>. QED BY <1>1, <2>1, <2>2 DEF SilenceKept
<1>14. OutageKept'
  <2>. SUFFICES ASSUME NEW q \in Replicas, monitor'[q].last \in 0..Interval - 1, ~Counting', ~Calling(q)'
                PROVE  silence' < 2 * Interval + monitor'[q].last
    BY DEF OutageKept
  <2>1. q # r /\ monitor'[q] = monitor[q]
    BY <1>5, AlertsAssumption
  <2>2. ~Calling(q)
    BY <1>3, <2>1 DEF Calling
  <2>. QED BY <1>7, <1>11, <2>1, <2>2, AlertsAssumption DEF OutageKept, AlarmTypes
<1>. QED BY <1>5, <1>6, <1>8, <1>10, <1>12, <1>13, <1>14

\* The claims that are over are those that came first.
LEMMA InitialSegment ==
  ASSUME NEW n \in Nat, NEW over \in SUBSET (1..n), \A i, j \in 1..n : j \in over /\ i < j => i \in over
  PROVE  Cardinality(over) \in 0..n /\ \A i \in 1..n : i \in over <=> i <= Cardinality(over)
<1>1. IsFiniteSet(1..n) /\ Cardinality(1..n) = n
  BY FS_Interval
<1>2. IsFiniteSet(over) /\ Cardinality(over) \in Nat /\ Cardinality(over) <= n
  <2>1. IsFiniteSet(over) /\ Cardinality(over) <= Cardinality(1..n)
    BY <1>1, FS_Subset
  <2>. QED BY <1>1, <2>1, FS_CardinalityType
<1>3. ASSUME NEW i \in 1..n, i \in over PROVE i <= Cardinality(over)
  <2>1. 1..i \in SUBSET over
    BY <1>3
  <2>2. Cardinality(1..i) <= Cardinality(over)
    BY <1>2, <2>1, FS_Subset
  <2>3. Cardinality(1..i) = i
    BY FS_Interval
  <2>. QED BY <2>2, <2>3
<1>4. ASSUME NEW i \in 1..n, i \notin over PROVE ~(i <= Cardinality(over))
  <2>1. over \in SUBSET (1..(i - 1))
    <3>. SUFFICES ASSUME NEW j \in over PROVE j \in 1..(i - 1)
      OBVIOUS
    <3>1. ~(i < j) /\ i # j
      BY <1>4
    <3>. QED BY <3>1
  <2>2. IsFiniteSet(1..(i - 1)) /\ Cardinality(1..(i - 1)) = i - 1
    <3>1. 1 \in Int /\ i - 1 \in Int
      OBVIOUS
    <3>. QED BY <3>1, FS_Interval
  <2>3. Cardinality(over) <= Cardinality(1..(i - 1))
    BY <2>1, <2>2, FS_Subset
  <2>. QED BY <1>2, <2>2, <2>3
<1>. QED BY <1>2, <1>3, <1>4

LEMMA OlderClaim ==
  ASSUME NEW d \in Claims
  PROVE  /\ [d EXCEPT !.age = @ + 1].age = d.age + 1
         /\ [d EXCEPT !.age = @ + 1].by = d.by /\ [d EXCEPT !.age = @ + 1].granted = d.granted
         /\ d.age + 1 < Interval => [d EXCEPT !.age = @ + 1] \in Claims
  BY AlertsAssumption DEF Claims

LEMMA SetBlocked ==
  ASSUME NEW g \in [blocked : 0..Interval, suppressed : Nat], NEW b \in 0..Interval
  PROVE  /\ [g EXCEPT !.blocked = b] \in [blocked : 0..Interval, suppressed : Nat]
         /\ [g EXCEPT !.blocked = b].blocked = b /\ [g EXCEPT !.blocked = b].suppressed = g.suppressed
  OBVIOUS

\* A claim that ages by a tick holds what its window, a tick shorter, still takes.
LEMMA AgeAndRest ==
  ASSUME NEW a \in Nat, NEW b \in Nat, NEW c \in Nat, NEW d \in Nat, a + b >= d, c + 1 >= b
  PROVE  (a + 1) + c >= d
  OBVIOUS

\* A time that has begun passes until it is cut off.
Grown(t, cap) == IF t = Null \/ t = cap THEN t ELSE t + 1

LEMMA GrownIs ==
  ASSUME NEW cap \in Nat
  PROVE  /\ \A t \in {Null} \cup 0..cap : Grown(t, cap) \in {Null} \cup 0..cap
         /\ \A t \in {Null} \cup 0..cap : Grown(t, cap) # Null => t # Null
         /\ \A t \in {Null} \cup 0..cap : Grown(t, cap) \in 0..cap - 1 => t \in 0..cap - 1 /\ Grown(t, cap) = t + 1
         /\ Grown(cap, cap) = cap
  BY AlertsAssumption DEF Grown

\* A tick later the claims are those that the interval has not passed.
LEMMA ClaimsAge ==
  ASSUME AlarmInv, Alarm!Tick
  PROVE  /\ recent' \in Seq(Claims)
         /\ \E k \in Nat : \A i \in DOMAIN recent' :
              /\ i + k \in DOMAIN recent /\ recent'[i].age = recent[i + k].age + 1
              /\ recent'[i].by = recent[i + k].by /\ recent'[i].granted = recent[i + k].granted
<1>. USE DEF AlarmInv
<1> DEFINE n == Len(recent)
           aged == [i \in DOMAIN recent |-> [recent[i] EXCEPT !.age = @ + 1]]
           over == {i \in DOMAIN aged : aged[i].age >= Interval}
           k == Cardinality(over)
<1>1. n \in Nat /\ DOMAIN recent = 1..n
  BY DEF AlarmTypes
<1>2. recent' = SubSeq(aged, k + 1, Len(aged))
  BY AlarmCounts DEF Alarm!Tick
<1>3. \A i \in 1..n : /\ aged[i] = [age |-> recent[i].age + 1, by |-> recent[i].by, granted |-> recent[i].granted]
                      /\ recent[i].age \in 0..Interval - 1 /\ recent[i].by \in Replicas \X Nat /\ recent[i].granted \in BOOLEAN
  BY <1>1, RecentAre
<1>4. \A i \in 1..n : recent[i] \in Claims /\ aged[i] = [recent[i] EXCEPT !.age = @ + 1]
  BY <1>1 DEF AlarmTypes
<1>5. \A i \in 1..n : /\ aged[i].age = recent[i].age + 1 /\ aged[i].by = recent[i].by
                      /\ aged[i].granted = recent[i].granted
  <2>. HIDE DEF aged, n
  <2>. QED BY <1>4, OlderClaim
<1>6. DOMAIN aged = 1..n /\ Len(aged) = n
  <2>1. DOMAIN aged = 1..n
    BY <1>1
  <2>2. aged \in Seq({aged[i] : i \in 1..n})
    BY <1>1, <2>1
  <2>. QED BY <1>1, <2>1, <2>2
<1>7. over \in SUBSET (1..n) /\ \A i, j \in 1..n : j \in over /\ i < j => i \in over
  <2>1. \A i, j \in 1..n : i < j => recent[i].age >= recent[j].age
    BY <1>1 DEF ClaimsHold
  <2>. HIDE DEF aged
  <2>2. \A i \in 1..n : i \in over <=> recent[i].age + 1 >= Interval
    BY <1>3, <1>6
  <2>. QED BY <1>3, <1>6, <2>1, <2>2, AlertsAssumption, SMTT(30)
<1>8. k \in 0..n /\ \A i \in 1..n : i \in over <=> i <= k
  <2>. HIDE DEF over, aged, n
  <2>. QED BY <1>1, <1>7, InitialSegment
<1>9. \A i \in k + 1..n : aged[i] \in Claims
  <2>. SUFFICES ASSUME NEW i \in k + 1..n PROVE aged[i] \in Claims
    OBVIOUS
  <2>. HIDE DEF aged, k, n
  <2>1. i \in 1..n /\ i \notin over
    BY <1>1, <1>8
  <2>2. ~(aged[i].age >= Interval)
    BY <1>6, <2>1
  <2>. HIDE DEF over
  <2>3. aged[i].age = recent[i].age + 1
    BY <1>5, <2>1
  <2>4. recent[i] \in Claims /\ recent[i].age + 1 < Interval
    <3>1. recent[i] \in Claims
      BY <1>4, <2>1
    <3>2. recent[i].age \in Nat
      BY <3>1, AlertsAssumption DEF Claims
    <3>. QED BY <2>2, <2>3, <3>1, <3>2, AlertsAssumption
  <2>. QED BY <1>4, <2>1, <2>4, OlderClaim
<1>. HIDE DEF k, over, aged, n
<1>10. /\ recent' \in Seq(Claims) /\ Len(recent') = (IF k + 1 <= n THEN n - (k + 1) + 1 ELSE 0)
       /\ \A i \in 1..n - (k + 1) + 1 : recent'[i] = aged[(k + 1) + i - 1]
  <2>1. k + 1 \in Int /\ n \in Int
    BY <1>1, <1>8
  <2>. QED BY <1>2, <1>6, <1>9, <2>1, SubSeqProperties
<1>11. Len(recent') = n - k /\ DOMAIN recent' = 1..n - k
  BY <1>1, <1>8, <1>10
<1>12. k \in Nat /\ \A i \in 1..n - k : i + k \in 1..n /\ recent'[i] = aged[i + k]
  <2>1. n - (k + 1) + 1 = n - k /\ \A i \in 1..n - k : (k + 1) + i - 1 = i + k /\ i + k \in 1..n
    BY <1>1, <1>8
  <2>. QED BY <1>8, <1>10, <2>1
<1>. QED BY <1>1, <1>10, <1>11, <1>12, <1>5, ZenonT(40)

LEMMA AlarmTickKeeps ==
  ASSUME AlarmInv, Alarm!Tick
  PROVE  AlarmInv'
<1>. USE DEF AlarmInv
<1> DEFINE Left(t) == IF t = 0 THEN 0 ELSE t - 1
<1>1. /\ \A c \in CallSlots : alerts[c] = Alarm!NoCall
      /\ key' = Left(key)
      /\ gate' = [r \in Replicas |-> [gate[r] EXCEPT !.blocked = Left(@)]]
      /\ monitor' = [r \in Replicas |-> [since |-> Grown(monitor[r].since, Threshold + 1),
                                         last |-> Grown(monitor[r].last, Interval)]]
      /\ silence' = Grown(silence, Alarm!Far)
      /\ UNCHANGED <<shared, alerts, tally, crashes>>
  BY DEF Alarm!Tick, AlarmTypes, Grown
<1>2. ~Counting' /\ ~Counting /\ \A c \in CallSlots : ~Sending(c)' /\ alerts'[c] = Alarm!NoCall
  BY <1>1, CallStatesAre DEF Counting, Sending
<1>3. \A r \in Replicas : ~Sends(r)' /\ ~Sends(r) /\ ~Calling(r)
  BY <1>1, <1>2, CallStatesAre DEF Sends, Calling, Sending
<1>4. \A t \in 0..Interval : Left(t) \in 0..Interval /\ Left(t) + 1 >= t /\ (Left(t) > 0 => t > 0 /\ Left(t) + 1 = t)
  BY AlertsAssumption
<1>5. ASSUME NEW r \in Replicas
      PROVE  /\ gate'[r] \in [blocked : 0..Interval, suppressed : Nat]
             /\ gate'[r].blocked = Left(gate[r].blocked) /\ gate'[r].suppressed = gate[r].suppressed
  <2>1. gate[r] \in [blocked : 0..Interval, suppressed : Nat] /\ gate[r].blocked \in 0..Interval
    BY DEF AlarmTypes
  <2>2. Left(gate[r].blocked) \in 0..Interval
    BY <1>4, <2>1
  <2>3. gate'[r] = [gate[r] EXCEPT !.blocked = Left(gate[r].blocked)]
    BY <1>1
  <2>. HIDE DEF Left
  <2>. QED BY <2>1, <2>2, <2>3, SetBlocked
<1>. HIDE DEF Left
<1>6. ASSUME NEW r \in Replicas
      PROVE  /\ gate'[r].blocked \in 0..Interval /\ gate[r].blocked \in 0..Interval
             /\ gate'[r].blocked + 1 >= gate[r].blocked
             /\ gate'[r].blocked > 0 => gate[r].blocked > 0 /\ gate'[r].blocked + 1 = gate[r].blocked
  <2>1. gate[r].blocked \in 0..Interval
    BY DEF AlarmTypes
  <2>. QED BY <1>5, <1>4, <2>1
<1>7. key \in 0..Interval /\ key' \in 0..Interval /\ key' + 1 >= key /\ (key' > 0 => key > 0 /\ key' + 1 = key)
  <2>1. key \in 0..Interval
    BY DEF AlarmTypes
  <2>. QED BY <1>1, <1>4, <2>1
<1>8. silence \in Nat /\ silence' \in Nat /\ silence' <= silence + 1
  <2>1. silence \in Nat /\ Null \notin Nat
    BY AlertsAssumption DEF AlarmTypes
  <2>2. Grown(silence, Alarm!Far) \in Nat /\ Grown(silence, Alarm!Far) <= silence + 1
    BY <2>1 DEF Grown
  <2>. QED BY <1>1, <2>1, <2>2
<1>9. AlarmTypes'
  <2>1. gate' \in [Replicas -> [blocked : 0..Interval, suppressed : Nat]]
    <3>1. DOMAIN gate' = Replicas /\ gate' = [r \in Replicas |-> gate'[r]]
      BY <1>1
    <3>. QED BY <1>5, <3>1
  <2>2. recent' \in Seq(Claims)
    BY ClaimsAge
  <2>3. shared' \in Nat /\ crashes' \in Nat /\ tally' \in Tallies /\ alerts' \in [CallSlots -> CallStates]
    BY <1>1 DEF AlarmTypes
  <2>. QED BY <1>7, <1>8, <2>1, <2>2, <2>3 DEF AlarmTypes
<1>10. WindowsTaken'
  BY <1>2 DEF WindowsTaken, Counting
<1>11. ClaimsHold'
  <2>1. PICK k \in Nat : \A i \in DOMAIN recent' :
              /\ i + k \in DOMAIN recent /\ recent'[i].age = recent[i + k].age + 1
              /\ recent'[i].by = recent[i + k].by /\ recent'[i].granted = recent[i + k].granted
    BY ClaimsAge
  <2>2. \A i \in DOMAIN recent : recent[i].age \in Nat
    BY RecentAre, AlertsAssumption
  <2>3. \A i \in DOMAIN recent' : recent'[i].by[2] <= crashes
    BY <2>1 DEF ClaimsHold
  <2>4. ASSUME NEW i \in DOMAIN recent', NEW r \in Replicas, recent'[i].by = <<r, crashes>>
        PROVE  recent'[i].age + gate'[r].blocked >= Interval
    <3>1. i + k \in DOMAIN recent /\ recent[i + k].age + gate[r].blocked >= Interval /\ recent'[i].age = recent[i + k].age + 1
      BY <2>1, <2>4 DEF ClaimsHold
    <3>2. gate[r].blocked \in Nat /\ gate'[r].blocked \in Nat /\ Interval \in Nat /\ gate'[r].blocked + 1 >= gate[r].blocked
      BY <1>6, AlertsAssumption
    <3>3. recent[i + k].age \in Nat
      BY <2>2, <3>1
    <3>4. (recent[i + k].age + 1) + gate'[r].blocked >= Interval
      BY <3>1, <3>2, <3>3, AgeAndRest
    <3>. QED BY <3>1, <3>4
  <2>5. ASSUME NEW i \in DOMAIN recent', recent'[i].granted PROVE recent'[i].age + key' >= Interval
    <3>1. i + k \in DOMAIN recent /\ recent[i + k].age + key >= Interval /\ recent'[i].age = recent[i + k].age + 1
      BY <2>1, <2>5 DEF ClaimsHold
    <3>2. key \in Nat /\ key' \in Nat /\ Interval \in Nat /\ key' + 1 >= key
      <4>1. \A x \in 0..Interval : x \in Nat
        OBVIOUS
      <4>. QED BY <1>7, <4>1, AlertsAssumption
    <3>3. recent[i + k].age \in Nat
      BY <2>2, <3>1
    <3>4. (recent[i + k].age + 1) + key' >= Interval
      BY <3>1, <3>2, <3>3, AgeAndRest
    <3>. QED BY <3>1, <3>4
  <2>6. \A i, j \in DOMAIN recent' : i < j => recent'[i].age >= recent'[j].age
    <3>. SUFFICES ASSUME NEW i \in DOMAIN recent', NEW j \in DOMAIN recent', i < j PROVE recent'[i].age >= recent'[j].age
      OBVIOUS
    <3>1. i \in Nat /\ j \in Nat
      BY <1>9 DEF AlarmTypes
    <3>2. i + k < j + k
      BY <3>1
    <3>3. recent[i + k].age >= recent[j + k].age
      BY <2>1, <3>2 DEF ClaimsHold
    <3>. QED BY <2>1, <2>2, <3>3
  <2>7. Alarm!Spaced'
    <3>. SUFFICES ASSUME NEW i \in DOMAIN recent', NEW j \in DOMAIN recent', i # j
                  PROVE  recent'[i].by # recent'[j].by /\ ~(recent'[i].granted /\ recent'[j].granted)
      BY DEF Alarm!Spaced
    <3>1. i \in Nat /\ j \in Nat
      BY <1>9 DEF AlarmTypes
    <3>2. i + k # j + k
      BY <3>1
    <3>. QED BY <2>1, <3>2 DEF ClaimsHold, Alarm!Spaced
  <2>. QED BY <1>1, <1>2, <1>3, <2>3, <2>4, <2>5, <2>6, <2>7 DEF ClaimsHold
<1>12. SilenceKept'
  <2>1. ASSUME key' > 0 PROVE silence' + key' <= Interval
    <3>1. key > 0 /\ key' + 1 = key /\ silence + key <= Interval
      BY <1>2, <1>7, <2>1 DEF SilenceKept
    <3>2. \A s \in Nat, l \in 0..Interval : s <= silence + 1 /\ l + 1 = key => s + l <= Interval
      BY <1>7, <1>8, <3>1, AlertsAssumption
    <3>. QED BY <1>7, <1>8, <3>1, <3>2
  <2>2. ASSUME NEW r \in Replicas, gate'[r].blocked > 0 PROVE silence' + gate'[r].blocked < 2 * Interval
    <3>1. gate[r].blocked > 0 /\ gate'[r].blocked + 1 = gate[r].blocked /\ gate[r].blocked \in Nat /\ gate'[r].blocked \in Nat
      BY <1>6, <2>2, AlertsAssumption
    <3>2. silence + gate[r].blocked < 2 * Interval
      BY <1>2, <1>3, <3>1 DEF SilenceKept
    <3>3. \A s, b \in Nat : s <= silence + 1 /\ b + 1 = gate[r].blocked => s + b < 2 * Interval
      BY <1>8, <3>1, <3>2, AlertsAssumption
    <3>. QED BY <1>8, <3>1, <3>3
  <2>. QED BY <2>1, <2>2 DEF SilenceKept
<1>13. MonitorKept' /\ OutageKept'
  <2>1. \A r \in Replicas : /\ monitor[r].since \in {Null} \cup 0..Threshold + 1 /\ monitor[r].last \in {Null} \cup 0..Interval
                            /\ monitor[r].last # Null => monitor[r].since = Threshold + 1
    BY DEF MonitorKept, Alarm!NoFalseAlarm
  <2>2. \A r \in Replicas : /\ monitor'[r].since = Grown(monitor[r].since, Threshold + 1)
                            /\ monitor'[r].last = Grown(monitor[r].last, Interval)
    BY <1>1
  <2>3. Threshold + 1 \in Nat /\ Interval \in Nat
    BY AlertsAssumption
  <2>4. monitor' \in [Replicas -> [since : {Null} \cup 0..Threshold + 1, last : {Null} \cup 0..Interval]]
    <3>1. \A r \in Replicas : /\ Grown(monitor[r].since, Threshold + 1) \in {Null} \cup 0..Threshold + 1
                              /\ Grown(monitor[r].last, Interval) \in {Null} \cup 0..Interval
      BY <2>1, <2>3, GrownIs
    <3>. QED BY <1>1, <3>1
  <2>5. Alarm!NoFalseAlarm'
    <3>. SUFFICES ASSUME NEW r \in Replicas, monitor'[r].last # Null PROVE monitor'[r].since = Threshold + 1
      BY DEF Alarm!NoFalseAlarm
    <3>1. monitor[r].last # Null
      BY <2>1, <2>2, <2>3, GrownIs
    <3>2. monitor[r].since = Threshold + 1
      BY <2>1, <3>1
    <3>3. Grown(Threshold + 1, Threshold + 1) = Threshold + 1
      BY <2>3, GrownIs
    <3>. QED BY <2>2, <3>2, <3>3
  <2>6. ASSUME NEW r \in Replicas, monitor'[r].last \in 0..Interval - 1
        PROVE  silence' < 2 * Interval + monitor'[r].last
    <3>1. monitor[r].last \in 0..Interval - 1 /\ monitor'[r].last = monitor[r].last + 1
      <4>1. Grown(monitor[r].last, Interval) \in 0..Interval - 1 /\ monitor[r].last \in {Null} \cup 0..Interval
        BY <2>1, <2>2, <2>6
      <4>. QED BY <2>2, <2>3, <4>1, GrownIs
    <3>2. silence < 2 * Interval + monitor[r].last
      BY <1>2, <1>3, <3>1 DEF OutageKept
    <3>3. \A s \in Nat : s <= silence + 1 => s < 2 * Interval + (monitor[r].last + 1)
      BY <1>8, <3>1, <3>2, AlertsAssumption
    <3>. QED BY <1>8, <3>1, <3>3
  <2>. QED BY <2>4, <2>5, <2>6 DEF MonitorKept, OutageKept
<1>14. Alarm!EachCounted'
  <2>1. \A q \in Replicas : gate'[q].suppressed = gate[q].suppressed
    BY <1>5
  <2>. QED BY <1>1, <2>1, KeptStays, CountedNow, CountedNext
<1>. QED BY <1>9, <1>10, <1>11, <1>12, <1>13, <1>14

LEMMA AlarmStep == AlarmInv /\ [Alarm!Next]_alertVars => AlarmInv'
<1>. SUFFICES ASSUME AlarmInv, [Alarm!Next]_alertVars PROVE AlarmInv'
  OBVIOUS
<1>1. DOMAIN alerts = CallSlots
  BY DEF AlarmInv, AlarmTypes
<1>2. CASE UNCHANGED alertVars
  <2>1. /\ AlarmTypes' /\ WindowsTaken' /\ ClaimsHold' /\ SilenceKept' /\ OutageKept' /\ MonitorKept'
    BY <1>2 DEF alertVars, AlarmInv, AlarmTypes, WindowsTaken, ClaimsHold, SilenceKept, OutageKept, MonitorKept,
                Alarm!Spaced, Alarm!NoFalseAlarm, Counting, Sends, Sending, Calling
  <2>2. Alarm!EachCounted'
    BY <1>2, CountedNow, CountedNext DEF alertVars, AlarmInv
  <2>. QED BY <2>1, <2>2 DEF AlarmInv
<1>. QED BY <1>1, <1>2, RaiseKeeps, ClaimKeeps, RecordKeeps, CountKeeps, CheckKeeps, RestartKeeps, AlarmTickKeeps DEF Alarm!Next

-----------------------------------------------------------------------------
(* What the server runs with, whichever part the initial state picks.      *)

\* A part that rests keeps its first state, so each invariant holds in every part.
ServerInv ==
  /\ part = "roles" => RolesInv
  /\ AlarmInv /\ LoginInv /\ ShopInv

LEMMA ServerInit == AllInit => ServerInv
<1>. SUFFICES ASSUME AllInit PROVE ServerInv
  OBVIOUS
<1>1. part = "roles" => Roles!Init
  BY DEF AllInit
<1>2. Alarm!Init /\ Login!Init /\ Shop!Init
  BY DEF AllInit
<1>. QED BY <1>1, <1>2, RolesInit, AlarmInit, LoginInit, ShopInit DEF ServerInv

\* A step of one part is a step or a stutter of each of them.
LEMMA PartsStep ==
  ASSUME [AllNext]_allVars
  PROVE  /\ part' = part /\ (part = "roles" => [Roles!Next]_roleVars)
         /\ [Alarm!Next]_alertVars /\ [Login!Next]_loginVars /\ [Shop!Next]_installVars
<1>1. CASE UNCHANGED allVars
  BY <1>1 DEF allVars
<1>2. CASE AllNext
  <2>1. part' = part
    BY <1>2 DEF AllNext
  <2>2. part = "roles" => [Roles!Next]_roleVars
    BY <1>2 DEF AllNext
  <2>3. Alarm!Next \/ UNCHANGED alertVars
    BY <1>2 DEF AllNext
  <2>4. Login!Next \/ UNCHANGED loginVars
    BY <1>2 DEF AllNext
  <2>5. Shop!Next \/ UNCHANGED installVars
    BY <1>2 DEF AllNext
  <2>. QED BY <2>1, <2>2, <2>3, <2>4, <2>5
<1>. QED BY <1>1, <1>2

LEMMA ServerStep == ServerInv /\ [AllNext]_allVars => ServerInv'
<1>. SUFFICES ASSUME ServerInv, [AllNext]_allVars PROVE ServerInv'
  OBVIOUS
<1>1. AlarmInv' /\ LoginInv' /\ ShopInv'
  BY PartsStep, AlarmStep, LoginStep, ShopStep DEF ServerInv
<1>2. part' = part /\ (part = "roles" => RolesInv')
  BY PartsStep, RolesStep DEF ServerInv
<1>. QED BY <1>1, <1>2 DEF ServerInv

\* What the server runs with fits, in every state: a run of the installer that ends
\* well leaves a stack that serves what the .env says, with the settings and the
\* password it was given and a database it can open, whatever was interrupted before
\* (install.sh:1029-1105; that it kept the previous printer is not said for a run
\* stopped between the removal of the old profiles and the .env: PrinterKept); the
\* runtime roles hold what the code uses, and no right to write what the worker measures
\* (provision-database.mjs); each withheld operator alert is counted until a message
\* names it, is lost with an answer of Redis or a message, or is counted twice, and an
\* outage that lasts is told (telegram.ts:111-178, worker-heartbeat-alert.ts:31-52); the
\* login answers no more guesses than its windows hold, and a place in them is held by a
\* guess, a request under way or one that ended on an error (login/route.ts:49-73,
\* security.ts:208-232).
THEOREM ServerAlwaysFits == AllSpec => []ServerFits
<1>1. ServerInv => ServerFits
  BY RolesInvSuffices, AlarmInvSuffices, LoginInvSuffices, ShopInvSuffices DEF ServerInv, ServerFits
<1>. QED BY <1>1, ServerInit, ServerStep, PTL DEF AllSpec
=============================================================================
