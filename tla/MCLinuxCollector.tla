-------------------------- MODULE MCLinuxCollector --------------------------
(* A file and two commands, dmesg among them; three collections.           *)
EXTENDS LinuxCollector

MCOrder == <<"proc_iomem", "dmesg", "dmidecode">>
=============================================================================
