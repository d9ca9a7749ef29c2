---------------------------- MODULE GWObjects ----------------------------
(***************************************************************************)
(* The records of the gateway service (RESTAPI_GWobjects.h and .cpp).      *)
(* The Members give each class its members by kind, and under "raw" the    *)
(* ones that have no initializer; the Codecs give what to_json writes and  *)
(* from_json reads, in that order, by the member it is read into.          *)
(***************************************************************************)
EXTENDS ObjectTables

GWConnectionStateMembers ==
  [ ConnectionState |->
      [text |-> {"Address", "Firmware", "Compatible", "locale",
                 "connectReason"}, flag |-> {"Connected", "hasGPS"},
       number |-> {"MessageCount", "UUID", "PendingUUID", "TX", "RX",
                   "Associations_2G", "Associations_5G", "Associations_6G",
                   "LastContact", "kafkaClients", "webSocketClients",
                   "kafkaPackets", "websocketPackets", "started", "sessionId",
                   "connectionCompletionTime", "certificateExpiryDate",
                   "hasRADIUSSessions", "sanity", "memoryUsed", "load",
                   "temperature"}, choice |-> {"VerifiedCertificate"}],
    DeviceRestrictionsKeyInfo |->
      [text |-> {"vendor", "algo"}],
    DeviceRestrictions |->
      [flag |-> {"dfs", "ssh", "rtty", "tty", "developer", "upgrade",
                 "commands"}, texts |-> {"country"}, object |-> {"key_info"}],
    Device |->
      [text |-> {"SerialNumber", "DeviceType", "MACAddress", "Manufacturer",
                 "Configuration", "Owner", "Location", "Firmware",
                 "Compatible", "FWUpdatePolicy", "Venue", "DevicePassword",
                 "subscriber", "entity", "locale", "pendingConfiguration",
                 "pendingConfigurationCmd"},
       flag |-> {"restrictedDevice", "simulated"},
       number |-> {"UUID", "CreationTimestamp", "LastConfigurationChange",
                   "LastConfigurationDownload", "LastFWUpdate", "modified",
                   "pendingUUID", "lastRecordedContact"},
       object |-> {"restrictionDetails"}, objects |-> {"Notes"}],
    DeviceConnectionStatistics |->
      [number |-> {"connectedDevices", "averageConnectionTime",
                   "connectingDevices"}],
    Statistics |->
      [text |-> {"SerialNumber", "Data"}, number |-> {"UUID", "Recorded"}],
    HealthCheck |->
      [text |-> {"SerialNumber", "Data"},
       number |-> {"UUID", "Recorded", "Sanity"}],
    Capabilities |->
      [text |-> {"Capabilities"}, number |-> {"FirstUpdate", "LastUpdate"}] ]

GWDeviceLogMembers ==
  [ DeviceLog |->
      [text |-> {"SerialNumber", "Log", "Data"},
       number |-> {"Severity", "Recorded", "LogType", "UUID"}],
    DefaultConfiguration |->
      [text |-> {"Name", "Configuration", "Description"},
       number |-> {"Created", "LastModified"}, texts |-> {"Models"},
       raw |-> {"Created", "LastModified"}],
    DefaultFirmware |->
      [text |-> {"deviceType", "Description", "uri", "revision"},
       number |-> {"imageCreationDate", "Created", "LastModified"},
       raw |-> {"imageCreationDate", "Created", "LastModified"}],
    DefaultFirmwareList |->
      [objects |-> {"firmwares"}],
    CommandDetails |->
      [text |-> {"UUID", "SerialNumber", "Command", "Status", "SubmittedBy",
                 "Results", "Details", "ErrorText", "AttachType"},
       flag |-> {"deferred"},
       number |-> {"Submitted", "Executed", "Completed", "RunAt", "ErrorCode",
                   "Custom", "WaitingForFile", "AttachDate", "AttachSize",
                   "executionTime", "lastTry"}],
    BlackListedDevice |->
      [text |-> {"serialNumber", "reason", "author"}, number |-> {"created"},
       raw |-> {"created"}],
    RttySessionDetails |->
      [text |-> {"SerialNumber", "Server", "Token", "ConnectionId",
                 "CommandUUID", "DevicePassword"},
       number |-> {"Port", "TimeOut", "Started", "ViewPort"}],
    Dashboard |->
      [number |-> {"snapshot", "numberOfDevices"},
       counts |-> {"commands", "upTimes", "memoryUsed", "load1", "load5",
                   "load15", "vendors", "status", "deviceType", "healths",
                   "certificates", "lastContact", "associations"}],
    CapabilitiesModel |->
      [text |-> {"deviceType", "capabilities"}] ]

GWScriptEntryMembers ==
  [ ScriptEntry |->
      [text |-> {"id", "name", "description", "uri", "content", "version",
                 "type", "author", "defaultUploadURI"}, flag |-> {"deferred"},
       number |-> {"created", "modified", "timeout"},
       texts |-> {"restricted"}, raw |-> {"created", "modified"}],
    ScriptEntryList |->
      [objects |-> {"scripts"}],
    ScriptRequest |->
      [text |-> {"serialNumber", "type", "script", "scriptId", "signature",
                 "uri"}, flag |-> {"deferred"},
       number |-> {"timeout", "when"}, raw |-> {"when", "deferred"}],
    RadiusProxyServerEntry |->
      [text |-> {"name", "ip", "secret", "certificate", "radsecSecret",
                 "radsecKey", "radsecCert"},
       flag |-> {"radsec", "allowSelfSigned", "ignore"},
       number |-> {"port", "weight", "radsecPort"},
       texts |-> {"radsecCacerts", "radsecRealms"}],
    RadiusProxyServerConfig |->
      [text |-> {"strategy", "monitorMethod"}, flag |-> {"monitor"},
       texts |-> {"methodParameters"}, objects |-> {"servers"}],
    RadiusProxyPool |->
      [text |-> {"name", "description", "radsecPoolType", "poolProxyIp"},
       flag |-> {"useByDefault", "enabled"}, number |-> {"radsecKeepAlive"},
       object |-> {"authConfig", "acctConfig", "coaConfig"}],
    RadiusProxyPoolList |->
      [objects |-> {"pools"}],
    RangeOptions |->
      [flag |-> {"NO_IR", "AUTO_BW", "DFS", "NO_OUTDOOR", "wmmrule_ETSI",
                 "NO_OFDM"}],
    FrequencyRange |->
      [number |-> {"from", "to", "channelWidth", "powerDb"},
       object |-> {"options"}],
    RegulatoryCountryInfo |->
      [text |-> {"country", "domain"}, objects |-> {"ranges"}] ]

GWRADIUSSessionMembers ==
  [ RADIUSSession |->
      [text |-> {"serialNumber", "destination", "userName",
                 "accountingSessionId", "accountingMultiSessionId",
                 "callingStationId", "chargeableUserIdentity", "secret",
                 "interface", "nasId", "calledStationId"},
       number |-> {"started", "lastTransaction", "inputPackets",
                   "outputPackets", "inputOctets", "outputOctets",
                   "inputGigaWords", "outputGigaWords", "sessionTime"}],
    RADIUSSessionList |->
      [objects |-> {"sessions"}],
    RadiusCoADMParameters |->
      [text |-> {"accountingSessionId", "accountingMultiSessionId",
                 "callingStationId", "chargeableUserIdentity", "userName"}],
    DeviceTransferRequest |->
      [text |-> {"serialNumber", "server"}, number |-> {"port"},
       raw |-> {"port"}],
    DeviceCertificateUpdateRequest |->
      [text |-> {"serialNumber", "encodedCertificate"}] ]

GWDeviceCodecs ==
  [ Device |->
      [Codec(<<"SerialNumber", "MACAddress", "Manufacturer", "UUID",
               "Configuration", "Notes", "CreationTimestamp",
               "LastConfigurationChange", "LastConfigurationDownload",
               "LastFWUpdate", "Owner", "Location", "Venue", "Firmware",
               "Compatible", "FWUpdatePolicy", "DevicePassword", "subscriber",
               "entity", "modified", "locale", "restrictedDevice",
               "pendingConfiguration", "pendingConfigurationCmd",
               "restrictionDetails", "pendingUUID", "simulated",
               "lastRecordedContact">>,
             <<"SerialNumber", "DeviceType", "MACAddress", "Manufacturer",
               "UUID", "Configuration", "Notes", "CreationTimestamp",
               "LastConfigurationChange", "LastConfigurationDownload",
               "LastFWUpdate", "Owner", "Location", "Venue", "Firmware",
               "Compatible", "FWUpdatePolicy", "DevicePassword", "subscriber",
               "entity", "modified", "locale", "restrictedDevice",
               "pendingConfiguration", "pendingConfigurationCmd",
               "restrictionDetails", "pendingUUID", "simulated",
               "lastRecordedContact">>)
         EXCEPT !.documents = {"Configuration"}],
    Statistics |->
      WriteOnly(<<"Data", "UUID", "Recorded">>),
    Capabilities |->
      WriteOnly(<<"Capabilities", "FirstUpdate", "LastUpdate">>),
    DeviceLog |->
      WriteOnly(<<"Data", "Log", "Severity", "Recorded", "LogType", "UUID">>),
    HealthCheck |->
      WriteOnly(<<"Data", "UUID", "Sanity", "Recorded">>) ]

GWDefaultConfigurationCodecs ==
  [ DefaultConfiguration |->
      [Codec(<<"Configuration", "Name", "Models", "Description", "Created",
               "LastModified">>,
             <<"Name", "Configuration", "Models", "Description">>)
         EXCEPT !.documents = {"Configuration"}],
    DefaultFirmware |->
      Both(<<"deviceType", "Description", "uri", "revision",
             "imageCreationDate", "Created", "LastModified">>),
    CommandDetails |->
      WriteOnly(<<"Details", "Results", "UUID", "SerialNumber", "Command",
                  "ErrorText", "SubmittedBy", "Status", "Submitted",
                  "Executed", "Completed", "RunAt", "ErrorCode", "Custom",
                  "WaitingForFile", "AttachDate", "executionTime", "lastTry",
                  "deferred">>),
    BlackListedDevice |->
      Both(<<"serialNumber", "author", "reason", "created">>),
    ConnectionState |->
      WriteOnly(<<"Address", "TX", "RX", "MessageCount", "UUID", "Connected",
                  "Firmware", "LastContact", "Associations_2G",
                  "Associations_5G", "Associations_6G", "webSocketClients",
                  "websocketPackets", "kafkaClients", "kafkaPackets", "locale",
                  "started", "sessionId", "connectionCompletionTime",
                  "certificateExpiryDate", "connectReason",
                  "hasRADIUSSessions", "hasGPS", "sanity", "memoryUsed",
                  "load", "temperature", "VerifiedCertificate">>) ]

GWDeviceConnectionStatisticsCodecs ==
  [ DeviceConnectionStatistics |->
      Both(<<"averageConnectionTime", "connectedDevices",
             "connectingDevices">>),
    RttySessionDetails |->
      WriteOnly(<<"SerialNumber", "Server", "Port", "Token", "TimeOut",
                  "ConnectionId", "CommandUUID", "Started", "ViewPort",
                  "DevicePassword">>),
    Dashboard |->
      WriteOnly(<<"commands", "upTimes", "memoryUsed", "load1", "load5",
                  "load15", "vendors", "status", "deviceType", "healths",
                  "certificates", "lastContact", "associations", "snapshot",
                  "numberOfDevices">>),
    CapabilitiesModel |->
      WriteOnly(<<"deviceType", "capabilities">>),
    ScriptRequest |->
      Codec(<<"serialNumber", "timeout", "type", "scriptId", "script", "when",
              "signature", "deferred", "uri">>,
            <<"serialNumber", "timeout", "type", "script", "scriptId", "when",
              "signature", "deferred", "uri">>),
    RadiusProxyPoolList |->
      Both(<<"pools">>),
    RadiusProxyPool |->
      Both(<<"name", "description", "authConfig", "acctConfig", "coaConfig",
             "useByDefault", "radsecKeepAlive", "poolProxyIp",
             "radsecPoolType", "enabled">>) ]

GWRadiusProxyServerConfigCodecs ==
  [ RadiusProxyServerConfig |->
      Both(<<"strategy", "monitor", "monitorMethod", "methodParameters",
             "servers">>),
    RadiusProxyServerEntry |->
      Codec(<<"name", "ip", "port", "weight", "secret", "certificate",
              "radsec", "allowSelfSigned", "radsecPort", "radsecSecret",
              "radsecCacerts", "radsecCert", "radsecKey", "radsecRealms",
              "ignore">>,
            <<"name", "ip", "port", "weight", "secret", "certificate",
              "radsec", "allowSelfSigned", "radsecSecret", "radsecPort",
              "radsecCacerts", "radsecCert", "radsecKey", "radsecRealms",
              "ignore">>),
    ScriptEntry |->
      Both(<<"id", "name", "description", "uri", "content", "version", "type",
             "created", "modified", "author", "restricted", "deferred",
             "timeout", "defaultUploadURI">>),
    ScriptEntryList |->
      Both(<<"scripts">>),
    RangeOptions |->
      WriteOnly(<<"NO_IR", "AUTO_BW", "DFS", "NO_OUTDOOR", "wmmrule_ETSI",
                  "NO_OFDM">>),
    FrequencyRange |->
      WriteOnly(<<"from", "to", "channelWidth", "powerDb", "options">>),
    RegulatoryCountryInfo |->
      WriteOnly(<<"country", "domain", "ranges">>) ]

GWDeviceRestrictionsKeyInfoCodecs ==
  [ DeviceRestrictionsKeyInfo |->
      Both(<<"vendor", "algo">>),
    DeviceRestrictions |->
      Both(<<"dfs", "ssh", "rtty", "tty", "developer", "upgrade", "commands",
             "country", "key_info">>),
    RADIUSSession |->
      WriteOnly(<<"started", "lastTransaction", "destination", "serialNumber",
                  "userName", "accountingSessionId",
                  "accountingMultiSessionId", "inputPackets", "outputPackets",
                  "inputOctets", "outputOctets", "inputGigaWords",
                  "outputGigaWords", "sessionTime", "callingStationId",
                  "chargeableUserIdentity", "interface", "secret", "nasId",
                  "calledStationId">>),
    RADIUSSessionList |->
      WriteOnly(<<"sessions">>),
    RadiusCoADMParameters |->
      Both(<<"accountingSessionId", "accountingMultiSessionId",
             "callingStationId", "chargeableUserIdentity", "userName">>),
    DeviceTransferRequest |->
      ReadOnly(<<"serialNumber", "server", "port">>),
    DeviceCertificateUpdateRequest |->
      ReadOnly(<<"serialNumber", "encodedCertificate">>) ]

GWMembers ==
  GWConnectionStateMembers @@ GWDeviceLogMembers
  @@ GWScriptEntryMembers
  @@ GWRADIUSSessionMembers

GWCodecs ==
  GWDeviceCodecs @@ GWDefaultConfigurationCodecs
  @@ GWDeviceConnectionStatisticsCodecs
  @@ GWRadiusProxyServerConfigCodecs
  @@ GWDeviceRestrictionsKeyInfoCodecs
=============================================================================
