----------------------------- MODULE Submission -----------------------------
(***************************************************************************)
(* What `judge` of oj/iojxd.lua makes of a submission's arguments, with    *)
(* the defaults of oj/config_parse.lua and the tables of oj/caster.lua:    *)
(* whether it is compiled, with what, what is executed in the end, under   *)
(* which whitelist and which time limit.  These values are the parameters  *)
(* of module Judge.                                                        *)
(*                                                                         *)
(* A Lua table is a function whose domain has the keys that are not nil.   *)
(* Only the names of files are abstracted.                                 *)
(***************************************************************************)
EXTENDS Integers

\* config_parse.parse: what is nil in src comes from the defaults.
Parse(src, defaults) ==
  [i \in DOMAIN src \cup DOMAIN defaults |-> IF i \in DOMAIN src THEN src[i] ELSE defaults[i]]

\* The default arguments.  javac and java are empty, and syscall_whitelist
\* is nil.
DefaultArgs(linux) ==
  [source |-> "apb.cpp", language |-> 1, flags |-> "-O3 -g", data |-> "in.in", result |-> "out.out",
   time |-> 5, mem |-> 3, outfile |-> "out.txt",
   c |-> IF linux THEN "gcc" ELSE "clang", cxx |-> IF linux THEN "g++" ELSE "clang++",
   javac |-> "", java |-> "", py |-> "python", js |-> "jsrunner", lua |-> "lua",
   sbuid |-> 2048, sbgid |-> 2048,
   dummy |-> ""]
-----------------------------------------------------------------------------
(* The tables of caster.lua.                                               *)

languages == [C |-> 0, CXX |-> 1, Python |-> 2, Java |-> 3, JavaScript |-> 4, Lua |-> 5]

Language == 0..5

needscompile(l) == l \in {languages.C, languages.CXX, languages.Java}

compiler_tag ==
  [l \in Language |-> CASE l = languages.C -> "c" [] l = languages.CXX -> "cxx"
                        [] l = languages.Java -> "javac" [] OTHER -> "dummy"]

runtime_tag ==
  [l \in Language |-> CASE l = languages.Python -> "py" [] l = languages.Java -> "java"
                        [] l = languages.JavaScript -> "js" [] l = languages.Lua -> "lua"
                        [] OTHER -> "dummy"]

CompiledCalls ==
  {"read", "write", "mmap", "mprotect", "munmap", "exit_group", "open", "close", "arch_prctl",
   "fstat", "access", "brk"}

PythonCalls ==
  (CompiledCalls \cup
     {"lstat", "rt_sigaction", "lseek", "ioctl", "fcntl", "readlink", "getrlimit",
      "rt_sigprocmask", "stat", "set_robust_list", "futex", "set_tid_address", "getuid",
      "getgid", "geteuid", "getegid", "getdents"})

syscall_whitelist ==
  [l \in Language |-> IF l \in {languages.C, languages.CXX} THEN CompiledCalls
                      ELSE IF l = languages.Python THEN PythonCalls ELSE {}]
-----------------------------------------------------------------------------
(* judge and evaluate.                                                     *)

\* The arguments `judge` goes on with, for a language of the tables.
Args(src, linux) ==
  LET args == Parse(src, DefaultArgs(linux))
  IN  Parse(args, [syscall_whitelist |-> syscall_whitelist[args.language]])

Compiler(args) == args[compiler_tag[args.language]]

\* What evaluate hands to execvp: paths.exec by itself, or the language's
\* program with a file.
Executed(args) ==
  LET program == args[runtime_tag[args.language]]
  IN  IF program = "" THEN <<"a.out">>
      ELSE <<program, IF needscompile(args.language) THEN "a.out" ELSE args.source>>

\* it_value in evaluate_child_setup, from milliseconds.
ItimerValue(time) == [tv_sec |-> time \div 1000, tv_usec |-> (time % 1000) * 1000]

\* setitimer(2) rejects a negative time, and zero arms nothing.
Arms(value) ==
  /\ value.tv_sec >= 0 /\ 0 <= value.tv_usec /\ value.tv_usec < 1000000
  /\ value.tv_sec > 0 \/ value.tv_usec > 0
=============================================================================
