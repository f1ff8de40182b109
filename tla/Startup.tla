------------------------------ MODULE Startup ------------------------------
(***************************************************************************)
(* What main makes of its arguments before it reads a file: the threads    *)
(* and CPUs that --cpu-type names (DETLSH.cpp) and the checks of           *)
(* isax_index_settings_init (isax_index.c).                                *)
(***************************************************************************)
EXTENDS Integers

\* The codes with a case of their own: the number of threads followed by 1,
\* every second CPU, or by 2, the CPUs in a row.
OneCpu == {21, 41, 61, 81, 101, 121, 141, 161}
TwoCpus == {22, 42, 62, 82, 102, 122, 142, 162, 182, 242, 362}

\* Any other value is itself the number of threads.
NumThread(cpu_control_type) ==
    IF cpu_control_type \in OneCpu \cup TwoCpus
    THEN cpu_control_type \div 10
    ELSE cpu_control_type

\* The mask for pthread_setaffinity_np. The empty one is refused with a
\* positive error number, which main does not look for: the threads then run
\* on all CPUs.
Mask(cpu_control_type) ==
    LET n == NumThread(cpu_control_type) IN
    CASE cpu_control_type \in OneCpu -> {2 * c : c \in 0 .. n - 1}
      [] cpu_control_type \in TwoCpus -> 0 .. n - 1
      [] OTHER -> {}

\* Only negative values are refused.
Refused(cpu_control_type) == cpu_control_type < 0

\* root_mask_type has 64 bits; with more dimensions than that there are no
\* settings (NULL). A projection has at most the dimensions of the data.
RootMaskBits == 64
SettingsRefused(LSH_dimensionality) == LSH_dimensionality > RootMaskBits
SettingsDimensionality(LSH_dimensionality, data_dimensionality) ==
    IF LSH_dimensionality > data_dimensionality THEN data_dimensionality
    ELSE LSH_dimensionality
=============================================================================
