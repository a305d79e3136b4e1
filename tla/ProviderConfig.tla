--------------------------- MODULE ProviderConfig ---------------------------
(* How providers are described: the configuration of an instance, what a     *)
(* provider can do and what a sandbox asks of it, the limits of an instance, *)
(* and the table of providers that the gateway fills when it starts.         *)
EXTENDS Integers, Sequences, SequencesExt

None == [absent |-> TRUE]
Refused == [refused |-> TRUE]
Blank(text) == text \in {"", " "}

------------------------------------------------------------------------------
\* ProviderInstanceConfig.

ContainerFields == {"socket", "image", "worker_binary", "mounts", "network_mode", "runsc_binary", "rootfs_dir"}
SectionOf == [firecracker |-> "firecracker_config", wasm |-> "wasm_runtime",
              kubernetes |-> "kubernetes_config", lambda |-> "lambda_config", local |-> "local_config"]
ProviderTypes == {"podman", "docker", "gvisor"} \cup DOMAIN SectionOf
Sections == {SectionOf[t] : t \in DOMAIN SectionOf}
\* The section a constructor fills in; the two with a text refuse a blank one.
NewSection(type, text) ==
  CASE type = "firecracker" -> [firecracker_binary |-> None, kernel |-> None, rootfs |-> None,
                                worker_binary |-> None, boot_args |-> None]
    [] type = "kubernetes" -> [cluster_endpoint |-> None, namespace |-> None, credentials |-> None,
                               default_volume_snapshot_class |-> None]
    [] type = "wasm" -> [kind |-> "Wasmtime", binary_path |-> None]
    [] type = "lambda" -> [region |-> text, credentials |-> None]
    [] type = "local" -> [workspace_dir |-> text]
new_config(type, text) ==
  LET empty == [f \in ContainerFields \cup Sections |-> IF f = "mounts" THEN <<>> ELSE None]
      filled == IF type \notin DOMAIN SectionOf THEN empty
                ELSE [empty EXCEPT ![SectionOf[type]] = NewSection(type, text)]
  IN IF type \in {"lambda", "local"} /\ Blank(text) THEN Refused
     ELSE [provider_type |-> type, fields |-> filled]
is_type(c, type) == c.provider_type = type
\* The accessors of the sections: nothing where there is no section.
field(c, section, name) ==
  IF c.fields[section] = None THEN None ELSE c.fields[section][name]
is_valid_local(c) == c.fields["local_config"] # None /\ ~Blank(c.fields["local_config"].workspace_dir)
is_valid_lambda(c) == c.fields["lambda_config"] # None /\ ~Blank(c.fields["lambda_config"].region)

\* Credentials: what each kind carries, and whether that is enough.
Aws(kind, text) ==
  CASE kind = "Static" -> IF Blank(text) THEN Refused
                          ELSE [kind |-> kind, has |-> {"access_key_id", "secret_access_key"}]
    [] kind = "IamRole" -> [kind |-> kind, has |-> {"role_arn"}]
AwsNeeds == [Static |-> {"access_key_id", "secret_access_key"}, Profile |-> {"profile"},
             IamRole |-> {"role_arn"}, WebIdentity |-> {"role_arn"}]
aws_is_valid(c) == AwsNeeds[c.kind] \subseteq c.has
Kubernetes(kind) == [kind |-> kind, has |-> [InCluster |-> {}, Kubeconfig |-> {"kubeconfig_path"},
                                             TokenFile |-> {"token_file"}][kind]]
kubernetes_is_valid(c) ==
  [InCluster |-> {}, Kubeconfig |-> {"kubeconfig_path"}, TokenFile |-> {"token_file"}][c.kind] \subseteq c.has

------------------------------------------------------------------------------
\* Capabilities, and the built-in types.

Flags == {"snapshots", "streaming", "pause_resume", "networking", "kvm"}
Capabilities(flags, timeout, memory, cpus, startup) ==
  [flags |-> flags, max_timeout_ms |-> timeout, max_memory_mb |-> memory,
   max_cpu_count |-> cpus, avg_startup_ms |-> startup]
try_new(c) ==
  IF 0 \in {c.max_timeout_ms, c.max_memory_mb, c.max_cpu_count, c.avg_startup_ms} THEN Refused ELSE c
Day == 86400000
container_capabilities == try_new(Capabilities(Flags \ {"kvm"}, Day, 16384, 16, 1500))
vm_capabilities == try_new(Capabilities(Flags, Day, 65536, 32, 500))
wasm_capabilities == try_new(Capabilities({"streaming"}, 300000, 512, 4, 50))
local_capabilities == try_new(Capabilities({"streaming", "networking"}, Day, 65536, 64, 1))
serverless_capabilities == try_new(Capabilities({"streaming", "networking"}, 900000, 3008, 2, 5000))
default_capabilities == Capabilities({"streaming", "networking"}, Day, 16384, 16, 1500)
\* A type repeats three facts of its capabilities, not always with the same values.
ProviderType(capabilities, model, startup, kvm, snapshots) ==
  [capabilities |-> capabilities, lifecycle_model |-> model, avg_startup_ms |-> startup,
   requires_kvm |-> kvm, supports_snapshots |-> snapshots]
with_builtin_types ==
  [podman |-> ProviderType(container_capabilities, "Container", 1500, FALSE, TRUE),
   docker |-> ProviderType(container_capabilities, "Container", 2000, FALSE, TRUE),
   gvisor |-> ProviderType(container_capabilities, "Container", 800, TRUE, FALSE),
   firecracker |-> ProviderType(vm_capabilities, "VirtualMachine", 500, TRUE, TRUE),
   wasm |-> ProviderType(wasm_capabilities, "Wasm", 50, FALSE, FALSE),
   local |-> ProviderType(local_capabilities, "Local", 0, FALSE, FALSE),
   kubernetes |-> ProviderType(serverless_capabilities, "Serverless", 5000, FALSE, FALSE),
   lambda |-> ProviderType(serverless_capabilities, "Serverless", 1000, FALSE, FALSE)]
supports_all(c, required) ==
  /\ required.flags \subseteq c.flags
  /\ c.max_timeout_ms >= required.max_timeout_ms
  /\ c.max_memory_mb >= required.max_memory_mb
  /\ c.max_cpu_count >= required.max_cpu_count
  /\ c.avg_startup_ms <= required.avg_startup_ms

\* The limits of an instance: a limit that is given is at least 1.
create_constraints(sandboxes, memory, cpus) ==
  IF 0 \in {sandboxes, memory, cpus} THEN Refused
  ELSE [max_sandboxes |-> sandboxes, max_memory_mb |-> memory, max_cpu_count |-> cpus]
NoLimit == -1
is_valid(k) == \A f \in DOMAIN k : k[f] = NoLimit \/ k[f] >= 1
has_capacity(k, current) == k.max_sandboxes = NoLimit \/ current < k.max_sandboxes

------------------------------------------------------------------------------
\* The table of providers.  A file is a name and a kind, or cannot be parsed.

Put(f, k, v) == [x \in DOMAIN f \cup {k} |-> IF x = k THEN v ELSE f[x]]
EmptyTable == [x \in {} |-> None]
\* Kinds that a provider can be made of; the wasm one is a build option, and the
\* constructor of the local one asks for a variable in the environment.
instantiate_provider(kind, options) ==
  IF kind \in {"podman", "gvisor", "firecracker"} \cup options
  THEN [kind |-> kind, router |-> FALSE] ELSE Refused
\* The files of a directory in the order it lists them; a later name replaces an
\* earlier one.
load_from_dir(files) ==
  FoldLeft(LAMBDA cs, f : IF f = Refused THEN cs ELSE Put(cs, f.name, f.kind), EmptyTable, files)
register_configs(configs, options) ==
  LET made == {n \in DOMAIN configs : instantiate_provider(configs[n], options) # Refused}
  IN [n \in made |-> instantiate_provider(configs[n], options)]
\* The start of the gateway: the directory, then the provider of the command line,
\* which has the command router unless podman is not there at all.
start_providers(files, options, alive) ==
  Put(register_configs(load_from_dir(files), options), "podman",
      [kind |-> IF alive THEN "podman" ELSE "null", router |-> alive])
default_provider(table) == IF "podman" \in DOMAIN table THEN table["podman"] ELSE Refused
==============================================================================
