------------------------------ MODULE MCMioApps ------------------------------
(***************************************************************************)
(* Configuration files for MioApps: what every file begins with, and then  *)
(* some of the settings, right or wrong.                                   *)
(***************************************************************************)
EXTENDS MioApps

Common == <<Entry("MOTR_INST_ADDR", "addr"), Entry("MOTR_HA_ADDR", "ha"),
            Entry("MOTR_PROFILE", "profile"), Entry("MOTR_PROCESS_FID", "fid"),
            Entry("MOTR_USER_GROUP", "motr")>>
Driver(d) == <<Entry("MIO_DRIVER", d)>>

Pool(n, i, t) == <<Entry("MOTR_POOL_NAME", n), Entry("MOTR_POOL_ID", i), Entry("MOTR_POOL_TYPE", t)>>
P1 == Pool("p1", "1:1", "NVM")
P2 == Pool("p2", "1:2", "HDD")
P3 == Pool("p3", "1:3", "SSD")

PoolLists == << <<>>, <<P1>>, <<P2, P1>>, <<P1, P2, P3>>, <<Pool("p1", "1:1", "TAPE")>>>>
Defaults  == << <<>>, <<Entry("MOTR_POOL_DEFAULT", "p1")>>, <<Entry("MOTR_POOL_DEFAULT", "p2")>>>>
Others    == << <<>>, <<Entry("MIO_TELEMETRY_STORE", "LOG"), Entry("MIO_LOG_LEVEL", "MIO_WARN")>>,
              <<Entry("MIO_TELEMETRY_STORE", "ADDB"), Entry("MOTR_IS_OOSTORE", "1"),
                Entry("MIO_LOG_DIR", "/dir")>>,
              <<Entry("MOTR_POOL_SIZE", "1")>>, <<Entry("MIO_LOG_LEVEL", "LOUD")>>>>

MakeDoc(o, p, d) == Common \o Driver("MOTR") \o o
                    \o (IF p = <<>> THEN <<>> ELSE <<Listing("MOTR_POOLS", p)>>) \o d
File(doc, well) == [doc |-> doc, toks |-> Scan(doc), well |-> well]

(* In the order of tests/mio_config.yaml, with a setting that is empty.    *)
Sample == <<Entry("MIO_CONFIG", ""), Entry("MIO_LOG_DIR", ""), Entry("MIO_LOG_LEVEL", "MIO_DEBUG")>>
          \o Driver("MOTR") \o <<Entry("MIO_TELEMETRY_STORE", "ADDB"), Entry("MOTR_CONFIG", "")>>
          \o Common \o <<Entry("MOTR_POOL_DEFAULT", "p1"), Listing("MOTR_POOLS", <<P2, P1>>)>>

(* Names of pools that differ in their last character only, and a value,   *)
(* all of them longer than what is counted of them.                        *)
Long(n) == "a_pool_whose_name_is_too_long_for_" \o n
Dir     == "/a/directory/of/25/chars" \o "/"
LongDoc == Common \o <<Entry("MIO_LOG_DIR", Dir \o Dir \o Dir \o Dir \o Dir \o Dir)>> \o Driver("MOTR")
           \o <<Entry("MOTR_POOL_DEFAULT", Long("2")),
                Listing("MOTR_POOLS", <<Pool(Long("1"), "1:1", "NVM"), Pool(Long("2"), "1:2", "HDD")>>)>>

(* A file by its other settings, its pools and its default pool; and one   *)
(* with an error that the scanner finds, one with a driver that is not     *)
(* there, the sample, and one with values that are too long.               *)
MCFiles ==
    [f \in ((1..Len(Others)) \X (1..Len(PoolLists)) \X (1..Len(Defaults))) \cup {<<0, 0, i>> : i \in 1..4} |->
        CASE f = <<0, 0, 3>> -> File(Sample, TRUE)
          [] f = <<0, 0, 1>> -> File(MakeDoc(<<>>, <<P1>>, <<>>), FALSE)
          [] f = <<0, 0, 4>> -> File(LongDoc, TRUE)
          [] f = <<0, 0, 2>> -> File(Common \o Driver("CEPH"), TRUE)
          [] OTHER -> File(MakeDoc(Others[f[1]], PoolLists[f[2]], Defaults[f[3]]), TRUE)]

MCAppFile == <<2, 2, 1>>
==============================================================================
