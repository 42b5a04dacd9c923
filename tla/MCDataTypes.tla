---------------------------- MODULE MCDataTypes -----------------------------
(* The keys, the configurations and the workloads of the runs of DataTypes *)
EXTENDS DataTypes

K(d, name) == [db |-> d, name |-> name]
k1 == K(0, <<120>>)       \* x
k2 == K(0, <<121>>)       \* y
k3 == K(1, <<120>>)       \* x of database 1
w1 == K(0, <<119, 49>>)   \* w1
w2 == K(0, <<119, 97>>)   \* wa
MCKey == {k1, k2, k3, w1, w2}

one == <<49>>
two == <<50>>
max == <<51>>
a   == <<97>>
ab  == <<97, 98>>

(* The slave and the server that loads the file have other limits.         *)
LimitsOf(entries, value) ==
    [list_max_ziplist_entries |-> entries, list_max_ziplist_value |-> value,
     set_max_intset_entries |-> entries,
     hash_max_ziplist_entries |-> entries, hash_max_ziplist_value |-> value,
     zset_max_ziplist_entries |-> entries, zset_max_ziplist_value |-> value]
MCLimits(role) ==
    CASE role = "master" -> LimitsOf(2, 1)
      [] role = "slave" -> LimitsOf(1, 2)
      [] role = "loading" -> LimitsOf(3, 0)

C(name, keys, vals, nums) == Command(name, keys, vals, nums)

KeyReads(k) == {C(n, <<k>>, <<>>, <<>>) : n \in {"EXISTS", "TYPE", "TTL", "OBJECT"}}

Expiring ==
    UNION {KeyReads(k) : k \in {k1, k2}}
    \cup {C("SET", <<k>>, <<one>>, <<>>) : k \in {k1}}
    \cup {C(n, <<k2>>, <<two>>, <<>>) : n \in {"SETNX", "SETXX", "GETSET"}}
    \cup {C("SETEX", <<k1>>, <<two>>, <<1>>)}
    \cup {C("EXPIRE", <<k>>, <<>>, <<t>>) : k \in {k1, k2}, t \in {1, -1}}
    \cup {C("PEXPIREAT", <<k2>>, <<>>, <<2>>)}
    \cup {C("PERSIST", <<k1>>, <<>>, <<>>), C("DEL", <<k1, k2>>, <<>>, <<>>)}
    \cup {C(n, <<k1, k2>>, <<>>, <<>>) : n \in {"RENAME", "RENAMENX"}}
    \cup {C("MOVE", <<k1, k3>>, <<>>, <<>>), C("INCRBY", <<k1>>, <<>>, <<1>>)}
    \cup {C(n, <<>>, <<>>, <<0>>) : n \in {"FLUSHDB", "FLUSHALL", "DBSIZE", "KEYS"}}
    \cup {C("RANDOMKEY", q, <<>>, <<0>>) : q \in {<<k1>>, <<k2>>}}

(* SET with EX, and an increment that is propagated as a SET.              *)
Times ==
    {C("SET EX", <<k1>>, <<one>>, <<1>>), C("SETEX", <<k1>>, <<one>>, <<1>>),
     C("INCRBYFLOAT", <<k1>>, <<>>, <<1>>), C("GET", <<k1>>, <<>>, <<>>)}

Strings ==
    {C(n, <<k1>>, <<v>>, <<>>) : n \in {"SET", "SETNX", "SETXX", "GETSET", "APPEND"}, v \in {one, max, a}}
    \cup {C("SETRANGE", <<k1>>, <<v>>, <<n>>) : v \in {a, <<>>}, n \in {-1, 1, 2}}
    \cup {C(n, <<k1, k2>>, <<one, a>>, <<>>) : n \in {"MSET", "MSETNX"}}
    \cup {C("INCRBY", <<k1>>, <<>>, <<n>>) : n \in {1, -1, 3}}
    \cup {C("DECRBY", <<k1>>, <<>>, <<n>>) : n \in {1, -4}}
    \cup {C("INCRBYFLOAT", <<k>>, <<>>, <<1>>) : k \in {k1, k2}}
    \cup {C(n, <<k1>>, <<>>, <<>>) : n \in {"GET", "STRLEN", "DEL"}}
    \cup {C("GETRANGE", <<k1>>, <<>>, q) : q \in {<<0, -1>>, <<-1, 5>>}}
    \cup {C("MGET", <<k1, k2>>, <<>>, <<>>), C("RPUSH", <<k2>>, <<a>>, <<>>)}

Bits ==
    {C("SETBIT", <<k1>>, <<>>, <<n, b>>) : n \in {7, 14, 16}, b \in {0, 1}}
    \cup {C(n, <<k2, k1, k2>>, <<>>, <<>>) : n \in {"AND", "OR", "XOR", "NOT"}}
    \cup {C(n, <<k, k1>>, <<>>, <<>>) : n \in {"NOT", "OR"}, k \in {k1, k2}}
    \cup {C("GETBIT", <<k2>>, <<>>, <<n>>) : n \in {7, 14}}
    \cup {C("BITCOUNT", <<k2>>, <<>>, <<0, -1>>), C("DEL", <<k1>>, <<>>, <<>>), C("SADD", <<k2>>, <<a>>, <<>>)}

Lists ==
    {C(n, <<k1>>, <<v>>, <<>>) : n \in {"LPUSH", "RPUSH", "LPUSHX", "RPUSHX"}, v \in {one, ab}}
    \cup {C("RPUSH", <<k1>>, <<one, ab>>, <<>>), C("SET", <<k2>>, <<one>>, <<>>)}
    \cup {C("LINSERT", <<k1>>, <<p, one>>, <<b>>) : p \in {one, ab}, b \in {0, 1}}
    \cup {C("LSET", <<k1>>, <<ab>>, <<n>>) : n \in {0, -2, 5}}
    \cup {C(n, <<k>>, <<>>, <<>>) : n \in {"LPOP", "RPOP", "LLEN"}, k \in {k1, k2}}
    \cup {C(n, <<k1>>, <<>>, q) : n \in {"LTRIM", "LRANGE"}, q \in {<<1, -1>>, <<0, 0>>, <<-5, 5>>, <<2, 1>>}}
    \cup {C("LREM", <<k1>>, <<one>>, <<n>>) : n \in {0, 1, -1}}
    \cup {C("LINDEX", <<k1>>, <<>>, <<n>>) : n \in {-1, 3}}
    \cup {C("RPOPLPUSH", q, <<>>, <<>>) : q \in {<<k1, k1>>, <<k1, k2>>, <<k2, k1>>}}

Sets ==
    {C("SADD", <<k>>, <<v>>, <<>>) : k \in {k1, k2}, v \in {one, two}}
    \cup {C("SADD", <<k1>>, <<a, one>>, <<>>), C("SET", <<k2>>, <<one>>, <<>>)}
    \cup {C("SREM", <<k>>, <<one, two>>, <<>>) : k \in {k1, k2}}
    \cup {C("SMOVE", q, <<v>>, <<>>) : q \in {<<k1, k2>>, <<k2, k1>>, <<k1, k1>>}, v \in {one, a}}
    \cup {C(n, <<k1>>, <<v>>, <<>>) : n \in {"SPOP", "SRANDMEMBER", "SISMEMBER"}, v \in {one, a}}
    \cup {C("SRANDMEMBER COUNT", <<k1>>, <<>>, <<n>>) : n \in {-2, 2}}
    \cup {C(n, <<k1, k2>>, <<>>, <<>>) : n \in {"SINTER", "SUNION", "SDIFF"}}
    \cup {C(n, <<d, k1, k2>>, <<>>, <<>>) : n \in {"SINTERSTORE", "SUNIONSTORE", "SDIFFSTORE"}, d \in {k1, k2}}
    \cup {C("SCARD", <<k1>>, <<>>, <<>>)}

Hashes ==
    {C(n, <<k1>>, <<f, v>>, <<>>) : n \in {"HSET", "HSETNX"}, f \in {a, one}, v \in {one, ab}}
    \cup {C("HMSET", <<k1>>, q, <<>>) : q \in {<<a, one, two, max>>, <<a>>}}
    \cup {C(n, <<k1>>, <<f>>, <<i>>) : n \in {"HINCRBY", "HINCRBYFLOAT"}, f \in {a}, i \in {1, -3}}
    \cup {C("HDEL", <<k1>>, q, <<>>) : q \in {<<a>>, <<one, two>>}}
    \cup {C(n, <<k1>>, <<a>>, <<>>) : n \in {"HGET", "HMGET", "HEXISTS", "HLEN", "HGETALL"}}
    \cup {C("SETNX", <<k1>>, <<one>>, <<>>), C("DEL", <<k1>>, <<>>, <<>>)}

SortedSets ==
    {C(n, <<k1>>, <<v>>, <<s>>) : n \in {"ZADD", "ZINCRBY"}, v \in {one, ab}, s \in {1, NegInf}}
    \cup {C("ZADD", <<k1>>, <<one, a>>, <<PosInf, 1>>), C("SET", <<k2>>, <<one>>, <<>>),
          C("SADD", <<k2>>, <<one, ab>>, <<>>)}
    \cup {C("ZREM", <<k1>>, <<one>>, <<>>)}
    \cup {C("ZREMRANGEBYSCORE", <<k1>>, <<>>, q) : q \in {<<1, 0, PosInf, 1>>, <<NegInf, 1, 1, 0>>}}
    \cup {C("ZREMRANGEBYRANK", <<k1>>, <<>>, <<-1, -1>>)}
    \cup {C(n, <<k2, k1, k2>>, <<>>, q) : n \in {"ZUNIONSTORE", "ZINTERSTORE"}, q \in {<<0, -1, 1>>}}
    \cup {C("ZUNIONSTORE", <<k2, k1>>, <<>>, <<1, 3>>)}
    \cup {C(n, <<k1>>, <<>>, <<0, -1>>) : n \in {"ZRANGE", "ZREVRANGE"}}
    \cup {C(n, <<k1>>, <<>>, <<0, 0, PosInf, 1, 1, 1>>) : n \in {"ZRANGEBYSCORE", "ZREVRANGEBYSCORE", "ZCOUNT"}}
    \cup {C(n, <<k1>>, <<one>>, <<>>) : n \in {"ZCARD", "ZSCORE", "ZRANK", "ZREVRANK"}}

SortKeys ==
    {C("RPUSH", <<k1>>, <<one>>, <<>>), C("SADD", <<k1>>, <<one, two>>, <<>>), C("SADD", <<k1>>, <<a>>, <<>>),
     C("ZADD", <<k1>>, <<two, one>>, <<0, 1>>), C("DEL", <<k1>>, <<>>, <<>>)}
    \cup {C("SET", <<w>>, <<one>>, <<>>) : w \in {w1, w2}}

Sorts ==
    SortKeys
    \cup {C("SORT", <<k1, k2>>, <<>>, q) :
             q \in {<<0, 0, 0, 0, 0, -1>>, <<0, 1, 1, 0, 0, 1>>, <<1, 0, 0, 1, 0, -1>>, <<2, 0, 0, 1, 1, 2>>}}
    \cup {C("SORT", <<k1>>, <<>>, q) : q \in {<<2, 0, 1, 0, 0, -1>>, <<1, 0, 1, 0, 0, -1>>}}

(* SORT BY weight ALPHA STORE.                                             *)
SortByAlpha == SortKeys \cup {C("SORT", <<k1, k2>>, <<>>, <<2, 1, 0, 0, 0, -1>>)}

(* Keys with and without an expire, in two databases.                      *)
Evicting ==
    {C("SET", <<k>>, <<one>>, <<>>) : k \in {k1, k3}} \cup {C("SETEX", <<k>>, <<one>>, <<1>>) : k \in {k2, k3}}
    \cup {C("GET", <<k1>>, <<>>, <<>>), C("RENAME", <<k1, k2>>, <<>>, <<>>), C("PERSIST", <<k2>>, <<>>, <<>>)}

(* Keys of every type that are dumped, restored and migrated.              *)
Moving ==
    {C("SETEX", <<k1>>, <<a>>, <<1>>), C("SET", <<k1>>, <<one>>, <<>>), C("RPUSH", <<k1>>, <<one, ab>>, <<>>),
     C("SADD", <<k1>>, <<one, a>>, <<>>), C("HMSET", <<k1>>, <<a, one>>, <<>>),
     C("ZADD", <<k1>>, <<ab, one>>, <<PosInf, 0>>),
     C("DUMP", <<k1, k2>>, <<>>, <<>>), C("MIGRATE", <<k1>>, <<>>, <<>>), C("DEL", <<k1, k2>>, <<>>, <<>>)}

MCPolicy(f) == IF f \in {"allkeys", "volatile", "noeviction"} THEN f ELSE "unlimited"

MCCommands(f) ==
    CASE f \in {"allkeys", "volatile", "noeviction"} -> Evicting
      [] f = "expiring" -> Expiring [] f = "times" -> Times [] f = "strings" -> Strings
      [] f = "bits" -> Bits [] f = "lists" -> Lists [] f = "sets" -> Sets [] f = "hashes" -> Hashes
      [] f = "zsets" -> SortedSets [] f = "sorts" -> Sorts [] f = "sortbyalpha" -> SortByAlpha
      [] f = "moving" -> Moving

=============================================================================
