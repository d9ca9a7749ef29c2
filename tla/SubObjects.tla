---------------------------- MODULE SubObjects ----------------------------
(***************************************************************************)
(* The records of the portal itself (RESTAPI_SubObjects.h and .cpp).       *)
(* The Members give each class its members by kind, and under "raw" the    *)
(* ones that have no initializer; the Codecs give what to_json writes and  *)
(* from_json reads, in that order, by the member it is read into.          *)
(***************************************************************************)
EXTENDS ObjectTables

SubHomeDeviceModeMembers ==
  [ HomeDeviceMode |->
      [text |-> {"type", "subnet", "subnetMask", "startIP", "endIP",
                 "subnetV6", "startIPV6", "endIPV6", "leaseTime"},
       flag |-> {"enableLEDS"},
       number |-> {"created", "modified", "subnetMaskV6"}],
    IPReservation |->
      [text |-> {"nickname", "ipAddress", "macAddress"}],
    IPReservationList |->
      [text |-> {"id"}, number |-> {"created", "modified"},
       objects |-> {"reservations"}],
    DnsConfiguration |->
      [text |-> {"primary", "secondary", "primaryV6", "secondaryV6"},
       flag |-> {"ISP", "custom"}],
    InternetConnection |->
      [text |-> {"type", "username", "password", "ipAddress", "subnetMask",
                 "defaultGateway", "primaryDns", "secondaryDns", "ipAddressV6",
                 "defaultGatewayV6", "primaryDnsV6", "secondaryDnsV6"},
       flag |-> {"sendHostname", "ipV6Support"},
       number |-> {"created", "modified", "subnetMaskV6"}],
    WifiNetwork |->
      [text |-> {"type", "name", "password", "encryption"},
       texts |-> {"bands"}],
    WifiNetworkList |->
      [number |-> {"created", "modified"}, objects |-> {"wifiNetworks"}],
    AccessTime |->
      [text |-> {"day"}, texts |-> {"rangeList"}],
    AccessTimes |->
      [number |-> {"created", "modified"}, objects |-> {"schedule"}],
    SubscriberDevice |->
      [text |-> {"name", "description", "macAddress", "manufacturer", "group",
                 "icon", "ip"}, flag |-> {"suspended"},
       number |-> {"firstContact", "lastContact"}, objects |-> {"schedule"}],
    SubscriberDeviceList |->
      [number |-> {"created", "modified"}, objects |-> {"devices"}] ]

SubAssociationMembers ==
  [ Association |->
      [text |-> {"name", "ssid", "macAddress", "ipv4", "ipv6", "manufacturer"},
       number |-> {"rssi", "power", "tx", "rx"}],
    AssociationList |->
      [number |-> {"created", "modified"}, objects |-> {"associations"}],
    Client |->
      [text |-> {"macAddress", "speed", "mode", "ipv4", "ipv6",
                 "manufacturer"}, number |-> {"tx", "rx"}],
    ClientList |->
      [number |-> {"created", "modified"}, objects |-> {"clients"}],
    Location |->
      [text |-> {"buildingName", "city", "state", "postal", "country"},
       texts |-> {"addressLines", "phones", "mobiles"}],
    RadioHE |->
      [flag |-> {"multipleBSSID", "ema"}, number |-> {"bssColor"}],
    RadioRates |->
      [number |-> {"beacon", "multicast"}],
    RadioInformation |->
      [text |-> {"band", "country", "channelMode", "requireMode", "mimo"},
       flag |-> {"legacyRates", "allowDFS"},
       number |-> {"bandwidth", "channel", "channelWidth", "txpower",
                   "beaconInterval", "dtimPeriod", "maximumClients"},
       texts |-> {"rawInfo"}, object |-> {"rates", "he"},
       raw |-> {"bandwidth"}],
    AccessPoint |->
      [text |-> {"id", "macAddress", "serialNumber", "name", "deviceType",
                 "configurationUUID", "currentFirmware", "latestFirmware",
                 "latestFirmwareURI"},
       flag |-> {"automaticUpgrade", "newFirmwareAvailable"},
       number |-> {"currentFirmwareDate", "latestFirmwareDate"},
       object |-> {"subscriberDevices", "ipReservations", "address",
                   "wifiNetworks", "internetConnection", "deviceMode",
                   "dnsConfiguration"}, objects |-> {"radios"},
       raw |-> {"currentFirmwareDate", "latestFirmwareDate",
                "newFirmwareAvailable"}],
    AccessPointList |->
      [objects |-> {"list"}] ]

SubSubscriberInfoMembers ==
  [ SubscriberInfo |->
      [text |-> {"id", "userId", "firstName", "initials", "lastName",
                 "phoneNumber", "secondaryEmail"},
       number |-> {"created", "modified"},
       object |-> {"accessPoints", "serviceAddress", "billingAddress"}],
    StatsEntry |->
      [number |-> {"timestamp", "tx", "rx"}],
    StatsBlock |->
      [number |-> {"modified"}, objects |-> {"external", "internal"}] ]

SubWifiNetworkCodecs ==
  [ WifiNetwork |->
      Both(<<"type", "name", "password", "encryption", "bands">>),
    WifiNetworkList |->
      Both(<<"wifiNetworks", "created", "modified">>),
    AccessTime |->
      Both(<<"day", "rangeList">>),
    AccessTimes |->
      Both(<<"schedule", "created", "modified">>),
    SubscriberDevice |->
      Both(<<"name", "description", "macAddress", "manufacturer",
             "firstContact", "lastContact", "group", "icon", "suspended", "ip",
             "schedule">>),
    SubscriberDeviceList |->
      Both(<<"devices", "created", "modified">>) ]

SubAssociationCodecs ==
  [ Association |->
      Both(<<"name", "ssid", "macAddress", "rssi", "power", "ipv4", "ipv6",
             "tx", "rx", "manufacturer">>),
    AssociationList |->
      Both(<<"associations", "created", "modified">>),
    Client |->
      Both(<<"macAddress", "speed", "mode", "ipv4", "ipv6", "tx", "rx",
             "manufacturer">>),
    ClientList |->
      Both(<<"clients", "created", "modified">>),
    Location |->
      Both(<<"buildingName", "addressLines", "city", "state", "postal",
             "country", "phones", "mobiles">>),
    AccessPoint |->
      Both(<<"id", "macAddress", "serialNumber", "name", "deviceType">>) ]

SubAccessPointListCodecs ==
  [ AccessPointList |->
      Both(<<"list">>),
    SubscriberInfo |->
      Both(<<"id", "userId", "firstName", "initials", "lastName",
             "phoneNumber", "secondaryEmail", "accessPoints", "serviceAddress",
             "billingAddress", "created", "modified">>),
    StatsEntry |->
      Both(<<"timestamp", "tx", "rx">>),
    StatsBlock |->
      Both(<<"modified", "external", "internal">>) ]

SubMembers ==
  SubHomeDeviceModeMembers @@ SubAssociationMembers
  @@ SubSubscriberInfoMembers

SubCodecs ==
  SubWifiNetworkCodecs @@ SubAssociationCodecs
  @@ SubAccessPointListCodecs
=============================================================================
